---- MODULE Spec2Model ----
(***************************************************************************)
(* A model of generic/tclStringObj.c (Tcl "string" object type, revision   *)
(* 1.100): the dual UTF-8 / Unicode representation of a string value, its  *)
(* append and set-length operations, range and reverse, and the format     *)
(* engine.                                                                 *)
(*                                                                         *)
(* A Tcl_Obj together with its String internal representation is a record  *)
(*   typ        "none" (typePtr == NULL) or "string" (&tclStringType)      *)
(*   bk         what objPtr->bytes points to: "null", "empty"              *)
(*              (tclEmptyStringRep) or "heap"                              *)
(*   bytes      the bytes bytes[0 .. length-1] when bytes is not NULL      *)
(*   length     objPtr->length (it is left stale when bytes is freed)      *)
(*   numChars, allocated, uallocated, hasUnicode   the String fields       *)
(*   unicode    the code units unicode[0 .. numChars-1] while hasUnicode   *)
(* Memory outside the logical contents (bytes past length, code units of a *)
(* buffer that is not in use) is indeterminate: a read of it yields any    *)
(* value of Garbage.                                                       *)
(***************************************************************************)
EXTENDS Integers, Sequences, FiniteSets, TLC

VARIABLES v, fatal, call, origin, ops

vars == <<v, fatal, call, origin, ops>>

----------------------------------------------------------------------------
(* Bounds of the model.                                                    *)

\* longest byte / code-unit sequence given to one call
MaxArg == 2

\* the longest sequence a value that is only read is constructed from
MaxCtor == 3
\* longest value (in bytes and in code units) an append is applied to
MaxVal == 3
\* the number of calls made on a value after its construction
MaxOps == 3

(* Program constants.                                                      *)
SizeofUniChar == 2
TCL_GROWTH_MIN_ALLOC == 1024
TCL_UTF_MAX == 3
INT_MAX == 2147483647

\* the bytes the inputs are made of: 'a', a naked trail byte, a lead byte
ByteVals == {97, 128, 196}
\* the code units the inputs are made of: 'a', U+0100
UniVals == {97, 256}
\* the values an indeterminate byte or code unit is read as
Garbage == {97, 196}


----------------------------------------------------------------------------
(* Sequences and evaluation.                                               *)

\* F(e), with e evaluated once however often F refers to its parameter
Bind(e, F(_)) == CHOOSE r \in {F(x) : x \in {e}} : TRUE

SeqsUpTo(S, n) == UNION {[1..k -> S] : k \in 0..n}

Take(s, n) == IF n <= 0 THEN <<>> ELSE SubSeq(s, 1, IF n < Len(s) THEN n ELSE Len(s))

Drop(s, n) == IF n >= Len(s) THEN <<>> ELSE SubSeq(s, n + 1, Len(s))

Rev(s) == [i \in 1..Len(s) |-> s[Len(s) + 1 - i]]

Fill(n, x) == [i \in 1..n |-> x]

Max(a, b) == IF a > b THEN a ELSE b

Min(a, b) == IF a < b THEN a ELSE b

\* s cut or padded with the indeterminate value g to exactly n elements
Resize(s, n, g) == IF n <= Len(s) THEN Take(s, n) ELSE s \o Fill(n - Len(s), g)

\* the byte at 0-based offset i of a NUL-terminated buffer holding s
ByteAt(s, i) == IF i >= 0 /\ i < Len(s) THEN s[i + 1] ELSE 0

----------------------------------------------------------------------------
(* UTF-8 (tclUtf.c), as used by tclStringObj.c.                            *)

IsTrail(b) == b >= 128 /\ b < 192

\* Tcl_UtfToUniChar at 0-based offset i of s: <<code unit, bytes consumed>>
Tcl_UtfToUniChar(s, i) ==
  Bind(<<ByteAt(s, i), ByteAt(s, i + 1), ByteAt(s, i + 2)>>, LAMBDA c :
    IF c[1] < 192 THEN <<c[1], 1>>
    ELSE IF c[1] < 224
      THEN IF IsTrail(c[2]) THEN <<(c[1] % 32) * 64 + (c[2] % 64), 2>>
                            ELSE <<c[1], 1>>
    ELSE IF c[1] < 240
      THEN IF IsTrail(c[2]) /\ IsTrail(c[3])
             THEN <<(c[1] % 16) * 4096 + (c[2] % 64) * 64 + (c[3] % 64), 3>>
             ELSE <<c[1], 1>>
    ELSE <<c[1], 1>>)

\* Tcl_UniCharToUtf: the bytes of one code unit
Tcl_UniCharToUtf(ch) ==
  IF ch > 0 /\ ch < 128 THEN <<ch>>
  ELSE IF ch <= 2047 THEN <<192 + (ch \div 64), 128 + (ch % 64)>>
  ELSE <<224 + (ch \div 4096), 128 + ((ch \div 64) % 64), 128 + (ch % 64)>>

RECURSIVE NumUtfFrom(_, _)
NumUtfFrom(s, i) ==
  IF i >= Len(s) THEN 0
  ELSE Bind(IF ByteAt(s, i) < 192 THEN i + 1
            ELSE i + Tcl_UtfToUniChar(s, i)[2], LAMBDA j :
         1 + NumUtfFrom(s, j))

\* Tcl_NumUtfChars(src, length) with length >= 0
Tcl_NumUtfChars(s) == Bind(s, LAMBDA src : NumUtfFrom(src, 0))

RECURSIVE DecodeFrom(_, _, _)
\* n calls of TclUtfToUniChar starting at offset i
DecodeFrom(s, i, n) ==
  IF n <= 0 THEN <<>>
  ELSE Bind(Tcl_UtfToUniChar(s, i), LAMBDA r :
       Bind(i + r[2], LAMBDA j :
         <<r[1]>> \o DecodeFrom(s, j, n - 1)))

\* the code units of the whole byte sequence s
Decode(s) == Bind(s, LAMBDA src : DecodeFrom(src, 0, Tcl_NumUtfChars(src)))

RECURSIVE EncodeFrom(_, _)
EncodeFrom(u, k) ==
  IF k > Len(u) THEN <<>> ELSE Tcl_UniCharToUtf(u[k]) \o EncodeFrom(u, k + 1)

\* the bytes of the code-unit sequence u
Encode(u) == Bind(u, LAMBDA src : EncodeFrom(src, 1))

\* Tcl_UtfPrev(src, start) with start at offset 0: the offset it returns
Tcl_UtfPrev(s, src) ==
  LET s0 == src - 1
      Look(k) == s0 - k
      \* the first i in 0..TCL_UTF_MAX-1 at which the loop leaves, or TCL_UTF_MAX
      Stops(i) == \/ Look(i) < 0
                  \/ ByteAt(s, Look(i)) < 128
                  \/ ByteAt(s, Look(i)) >= 192
      first == IF \E i \in 0..(TCL_UTF_MAX - 1) : Stops(i)
                 THEN CHOOSE i \in 0..(TCL_UTF_MAX - 1) :
                        Stops(i) /\ \A j \in 0..(i - 1) : ~Stops(j)
                 ELSE TCL_UTF_MAX
  IN  Bind(first, LAMBDA f :
        IF f = TCL_UTF_MAX THEN s0
        ELSE IF Look(f) < 0 THEN (IF s0 < 0 THEN 0 ELSE s0)
        ELSE IF ByteAt(s, Look(f)) < 128 THEN s0
        ELSE Look(f))

----------------------------------------------------------------------------
(* Objects.                                                                *)

\* STRING_UALLOC(numChars)
STRING_UALLOC(numChars) == numChars * SizeofUniChar

Obj(typ, bk, bytes, length, numChars, allocated, uallocated, hasUnicode, unicode) ==
  [typ |-> typ, bk |-> bk, bytes |-> bytes, length |-> length,
   numChars |-> numChars, allocated |-> allocated, uallocated |-> uallocated,
   hasUnicode |-> hasUnicode, unicode |-> unicode]

\* TclNewObj: an untyped object whose bytes are tclEmptyStringRep
TclNewObj == Obj("none", "empty", <<>>, 0, -1, 0, 0, 0, <<>>)

\* TclInitStringRep(objPtr, bytes, length)
TclInitStringRep(o, b) ==
  IF Len(b) = 0
    THEN [o EXCEPT !.bk = "empty", !.bytes = <<>>, !.length = 0]
    ELSE [o EXCEPT !.bk = "heap", !.bytes = b, !.length = Len(b)]

\* TclInvalidateStringRep: frees the bytes; objPtr->length is left as it is
TclInvalidateStringRep(o) == [o EXCEPT !.bk = "null", !.bytes = <<>>]

\* TclFreeIntRep followed by typePtr = NULL
TclFreeIntRep(o) ==
  [o EXCEPT !.typ = "none", !.numChars = -1, !.allocated = 0,
            !.uallocated = 0, !.hasUnicode = 0, !.unicode = <<>>]

\* a result of an operation: the object, how the call ended, what it returned
Res(o, st, ret) == [o |-> o, st |-> st, ret |-> ret]

\* the first n code units of the unicode buffer of o; a unit that is not part
\* of the logical contents is indeterminate and read as g
UniBuf(o, n, g) == Resize(IF o.hasUnicode # 0 THEN o.unicode ELSE <<>>, n, g)

\* the first n bytes of the byte buffer of o, indeterminate past the contents
ByteBuf(o, n, g) == Resize(IF o.bk = "heap" THEN o.bytes ELSE <<>>, n, g)

\* ExtendStringRepWithUnicode(objPtr, unicode, numChars), numChars = Len(u)
ExtendStringRepWithUnicode(o, u) ==
  IF Len(u) = 0
    THEN Res(IF o.bk = "null" THEN TclInitStringRep(o, <<>>) ELSE o, "ok", 0)
    ELSE
      Bind(IF o.bk = "empty" THEN TclInvalidateStringRep(o) ELSE o, LAMBDA o1 :
      Bind(IF o1.bk # "null" THEN o1 ELSE [o1 EXCEPT !.length = 0], LAMBDA o2 :
      Bind(Encode(u), LAMBDA enc :
      Bind(o2.length + Len(enc), LAMBDA size :
        IF size > o2.allocated
          THEN Res([o2 EXCEPT !.bk = "heap", !.allocated = size,
                              !.bytes = o2.bytes \o enc,
                              !.length = size], "ok", Len(u))
        ELSE IF o2.bk = "null"
          THEN Res(o2, "crash", 0)
        ELSE Res([o2 EXCEPT !.bytes = o2.bytes \o enc,
                            !.length = size], "ok", Len(u))))))

\* UpdateStringOfString
UpdateStringOfString(o, g) ==
  Bind(UniBuf(o, Max(o.numChars, 0), g), LAMBDA u :
    ExtendStringRepWithUnicode(o, u))

\* TclGetString / TclGetStringFromObj: generates the bytes when they are NULL
TclGetString(o, g) ==
  IF o.bk # "null" THEN Res(o, "ok", o.bytes)
  ELSE IF o.typ # "string" THEN Res(o, "panic", <<>>)
  ELSE Bind(UpdateStringOfString(o, g), LAMBDA r : Res(r.o, r.st, r.o.bytes))

\* SetStringFromAny
SetStringFromAny(o) ==
  IF o.typ = "string" THEN o
  ELSE [o EXCEPT !.typ = "string", !.numChars = -1, !.allocated = o.length,
                 !.uallocated = 0, !.hasUnicode = 0, !.unicode = <<>>]

\* the capacity ExtendUnicodeRepWithString leaves for a need of uallocated
\* bytes; limit/2 for limit = STRING_UALLOC(INT_MAX) is INT_MAX, and a
\* capacity of limit itself is beyond the integers of the model and is
\* written INT_MAX
GrownUalloc(o, uallocated) ==
  IF uallocated > o.uallocated
    THEN IF o.uallocated > 0
           THEN IF uallocated <= INT_MAX THEN uallocated * 2 ELSE INT_MAX
           ELSE uallocated
    ELSE o.uallocated

\* ExtendUnicodeRepWithString(objPtr, bytes, numBytes, numAppendChars); the
\* bytes are b, or NULL with numBytes bytes claimed when isNull
ExtendUnicodeRepWithString(o, b, isNull, numBytes, numAppendChars) ==
  Bind(IF o.hasUnicode # 0 THEN o.numChars ELSE 0, LAMBDA numOrigChars :
    IF isNull /\ ((numAppendChars = -1 /\ numBytes > 0) \/ numAppendChars > 0)
      THEN Res(o, "crash", 0)
    ELSE
      Bind(IF numAppendChars = -1 THEN Tcl_NumUtfChars(b) ELSE numAppendChars,
           LAMBDA nApp :
      Bind(numOrigChars + nApp, LAMBDA needed :
        IF needed < 0 THEN Res(o, "panic", 0)
        ELSE Res([o EXCEPT
                    !.uallocated = GrownUalloc(o, STRING_UALLOC(needed)),
                    !.hasUnicode = IF needed > 0 THEN 1 ELSE 0,
                    !.numChars = needed,
                    !.unicode = IF needed > 0
                                  THEN Take(o.unicode, numOrigChars)
                                       \o DecodeFrom(b, 0, nApp)
                                  ELSE <<>>], "ok", 0))))

\* FillUnicodeRep
FillUnicodeRep(o) ==
  ExtendUnicodeRepWithString(o, o.bytes, o.bk = "null", o.length, o.numChars)

----------------------------------------------------------------------------
(* Set-length.                                                             *)

\* the two branches Tcl_SetObjLength and Tcl_AttemptSetObjLength share once
\* the arguments are accepted; allocOk: the (re)allocation succeeds
SetLengthBody(o0, length, allocOk, g) ==
  Bind(SetStringFromAny(o0), LAMBDA o :
  Bind(length > o.allocated /\ (o.bk # "null" \/ o.hasUnicode = 0), LAMBDA grow :
    IF grow /\ ~allocOk THEN Res(o, "ok", 0)
    ELSE
      Bind(IF grow
             THEN [o EXCEPT !.bk = "heap",
                            !.bytes = IF o.bk = "heap" THEN o.bytes
                                      ELSE Fill(o.length, g),
                            !.allocated = length,
                            !.hasUnicode = 0, !.unicode = <<>>]
             ELSE o, LAMBDA o1 :
        IF o1.bk = "heap"
          THEN Res([o1 EXCEPT !.length = length,
                              !.bytes = Resize(o1.bytes, length, g),
                              !.numChars = -1,
                              !.hasUnicode = 0, !.unicode = <<>>], "ok", 1)
        ELSE IF o1.bk = "empty"
          \* tclEmptyStringRep is not written to; a length above 0 makes the
          \* bytes past its NUL part of the value
          THEN Res([o1 EXCEPT !.length = length,
                              !.bytes = IF length > 0
                                          THEN Resize(<<0>>, length, g)
                                          ELSE <<>>,
                              !.numChars = -1,
                              !.hasUnicode = 0, !.unicode = <<>>], "ok", 1)
        ELSE IF STRING_UALLOC(length) > o1.uallocated /\ ~allocOk
          THEN Res(o, "ok", 0)
        ELSE Res([o1 EXCEPT
                    !.uallocated = Max(STRING_UALLOC(length), o1.uallocated),
                    !.numChars = length,
                    !.hasUnicode = IF length > 0 THEN 1 ELSE 0,
                    !.unicode = UniBuf(o1, length, g),
                    !.allocated = 0,
                    !.length = 0], "ok", 1))))

\* Tcl_SetObjLength; sh: Tcl_IsShared(objPtr). The strict allocator either
\* succeeds or panics (strictOk)
Tcl_SetObjLength(o, length, sh, strictOk, g) ==
  IF length < 0 THEN Res(o, "panic", 0)
  ELSE IF sh THEN Res(o, "panic", 0)
  ELSE Bind(SetLengthBody(o, length, strictOk, g), LAMBDA r :
         IF r.st = "ok" /\ r.ret = 0 THEN Res(r.o, "panic", 0) ELSE r)

\* a Tcl_AttemptSetObjLength that drops the unicode buffer before it knows
\* the allocation succeeded
Tcl_AttemptSetObjLengthDropping(o, length, sh, allocOk, g) ==
  IF length < 0 THEN Res(o, "ok", 0)
  ELSE IF sh THEN Res(o, "panic", 0)
  ELSE Bind(SetLengthBody(o, length, allocOk, g), LAMBDA r :
         IF r.st = "ok" /\ r.ret = 0
           THEN Res([r.o EXCEPT !.numChars = -1, !.hasUnicode = 0,
                                !.unicode = <<>>], "ok", 0)
           ELSE r)

\* Tcl_AttemptSetObjLength: returns 1, or 0 when it gave up
Tcl_AttemptSetObjLength(o, length, sh, allocOk, g) ==
  IF length < 0 THEN Res(o, "ok", 0)
  ELSE IF sh THEN Res(o, "panic", 0)
  ELSE SetLengthBody(o, length, allocOk, g)

----------------------------------------------------------------------------
(* The four directed appends.                                              *)

\* the C int 2 * x for an int x >= 0: the product wraps around at 2^31
TwiceInt(x) ==
  IF x <= INT_MAX \div 2 THEN 2 * x
  ELSE (2 * (x - (INT_MAX \div 2) - 1) - INT_MAX) - 1

\* a growth that asks for the old length only
ModestGrowthToOldLength(newLength, numBytes) == newLength - numBytes

\* the capacity AppendUtfToUtfRep asks for after the doubling attempt failed
ModestGrowth(newLength, numBytes) ==
  newLength + (IF numBytes > (INT_MAX - newLength) - TCL_GROWTH_MIN_ALLOC
                 THEN INT_MAX - newLength
                 ELSE numBytes + TCL_GROWTH_MIN_ALLOC)

\* the memcpy of b to bytes + oldLength and the NUL after it
CopyBytes(o1, oldLength, b, g) ==
  IF o1.bk # "heap" THEN Res(o1, "crash", 0)
  ELSE Res([o1 EXCEPT !.bytes = Resize(o1.bytes, oldLength, g) \o b,
                      !.length = oldLength + Len(b)], "ok", 0)

\* AppendUtfToUtfRep(objPtr, bytes, numBytes); attemptOk: the doubling
\* attempt succeeds
AppendUtfToUtfRep(o, b, sh, attemptOk, g) ==
  IF Len(b) = 0 THEN Res(o, "ok", 0)
  ELSE IF Len(b) > INT_MAX - o.length THEN Res(o, "panic", 0)
  ELSE
    Bind(Len(b) + o.length, LAMBDA newLength :
    Bind(IF newLength > o.allocated
           THEN Bind(Tcl_AttemptSetObjLength(o, TwiceInt(newLength), sh,
                                             attemptOk, g), LAMBDA a :
                  IF a.st = "ok" /\ a.ret = 0
                    THEN Tcl_SetObjLength(a.o, ModestGrowth(newLength, Len(b)),
                                          sh, TRUE, g)
                    ELSE a)
           ELSE Res(o, "ok", 1), LAMBDA s :
      IF s.st # "ok" THEN Res(s.o, s.st, 0)
      ELSE CopyBytes([s.o EXCEPT !.numChars = -1,
                                 !.hasUnicode = 0, !.unicode = <<>>],
                     o.length, b, g)))

\* AppendUtfToUnicodeRep(objPtr, bytes, numBytes)
AppendUtfToUnicodeRep(o, b) ==
  IF Len(b) = 0 THEN Res(o, "ok", 0)
  ELSE Bind(ExtendUnicodeRepWithString(o, b, FALSE, Len(b), -1), LAMBDA r :
         IF r.st # "ok" THEN r
         ELSE Res([TclInvalidateStringRep(r.o) EXCEPT !.allocated = 0], "ok", 0))

\* AppendUnicodeToUnicodeRep(objPtr, unicode, appendNumChars); attemptOk: the
\* doubling attempt succeeds
AppendUnicodeToUnicodeRep(o0, u, attemptOk, g) ==
  IF Len(u) = 0 THEN Res(o0, "ok", 0)
  ELSE
    Bind(SetStringFromAny(o0), LAMBDA o :
    Bind(o.numChars + Len(u), LAMBDA numChars :
      Res([TclInvalidateStringRep(o) EXCEPT
             !.uallocated = IF STRING_UALLOC(numChars) >= o.uallocated
                              THEN IF attemptOk
                                     THEN STRING_UALLOC(2 * numChars)
                                     ELSE STRING_UALLOC(numChars + Len(u))
                                          + TCL_GROWTH_MIN_ALLOC
                              ELSE o.uallocated,
             !.unicode = UniBuf(o, Max(o.numChars, 0), g) \o u,
             !.numChars = numChars,
             !.hasUnicode = o.hasUnicode,
             !.allocated = 0], "ok", 0)))

\* AppendUnicodeToUtfRep(objPtr, unicode, numChars)
AppendUnicodeToUtfRep(o, u) ==
  Bind(ExtendStringRepWithUnicode(o, u), LAMBDA r :
    IF r.st # "ok" THEN r
    ELSE Res([r.o EXCEPT !.numChars = IF o.numChars # -1
                                        THEN o.numChars + r.ret
                                        ELSE o.numChars,
                         !.hasUnicode = 0, !.unicode = <<>>], "ok", 0))

----------------------------------------------------------------------------
(* Construction and assignment.                                            *)

\* Tcl_NewStringObj(bytes, length)
Tcl_NewStringObj(b) == TclInitStringRep(TclNewObj, b)

\* the code units SetUnicodeObj takes from u when numChars < 0: those before
\* the first 0
UntilNul(u) ==
  IF \E k \in 1..Len(u) : u[k] = 0
    THEN Take(u, (CHOOSE k \in 1..Len(u) :
                    u[k] = 0 /\ \A j \in 1..(k - 1) : u[j] # 0) - 1)
    ELSE u

\* the String record SetUnicodeObj leaves for the code units src
UnicodeRep(o, src) ==
  [TclInvalidateStringRep(o) EXCEPT
     !.typ = "string",
     !.numChars = Len(src),
     !.uallocated = STRING_UALLOC(Len(src)),
     !.hasUnicode = IF Len(src) > 0 THEN 1 ELSE 0,
     !.allocated = 0,
     !.unicode = src]

\* a SetUnicodeObj that stops at the first 0 whatever length it is given
SetUnicodeObjToNul(o, u, numChars) ==
  Bind(UntilNul(u), LAMBDA src : UnicodeRep(o, src))

\* SetUnicodeObj(objPtr, unicode, numChars)
SetUnicodeObj(o, u, numChars) ==
  Bind(IF numChars < 0 THEN UntilNul(u) ELSE Take(u, numChars), LAMBDA src :
    UnicodeRep(o, src))

\* Tcl_NewUnicodeObj(unicode, numChars)
Tcl_NewUnicodeObj(u, numChars) == SetUnicodeObj(TclNewObj, u, numChars)

\* Tcl_SetStringObj(objPtr, bytes, length)
Tcl_SetStringObj(o, b, sh) ==
  IF sh THEN Res(o, "panic", 0)
  ELSE Res(TclInitStringRep(TclInvalidateStringRep(TclFreeIntRep(o)), b), "ok", 0)

\* Tcl_SetUnicodeObj(objPtr, unicode, numChars)
Tcl_SetUnicodeObj(o, u, numChars, sh) ==
  IF sh THEN Res(o, "panic", 0)
  ELSE Res(SetUnicodeObj(TclFreeIntRep(o), u, numChars), "ok", 0)

----------------------------------------------------------------------------
(* Reading.                                                                *)

\* Tcl_GetCharLength: the count of the leading bytes below 0xC0
RECURSIVE AsciiRun(_, _)
\* a prefix scan that also steps over the lead bytes of two-byte characters
AsciiRunOverLeads(s, k) ==
  IF k < Len(s) /\ s[k + 1] < 224 THEN AsciiRun(s, k + 1) ELSE k

AsciiRun(s, k) ==
  IF k < Len(s) /\ s[k + 1] < 192 THEN AsciiRun(s, k + 1) ELSE k

\* Tcl_GetCharLength(objPtr)
Tcl_GetCharLength(o0) ==
  Bind(SetStringFromAny(o0), LAMBDA o :
    IF o.numChars # -1 THEN Res(o, "ok", o.numChars)
    ELSE IF o.bk = "null" /\ o.length > 0 THEN Res(o, "crash", 0)
    ELSE
      Bind(AsciiRun(o.bytes, 0), LAMBDA run :
      Bind(run + (IF o.length - run > 0
                    THEN Tcl_NumUtfChars(Drop(o.bytes, run)) ELSE 0), LAMBDA n :
        IF n = o.length
          THEN Res([o EXCEPT !.numChars = n,
                             !.hasUnicode = 0, !.unicode = <<>>], "ok", n)
          ELSE Bind(FillUnicodeRep([o EXCEPT !.numChars = n]), LAMBDA f :
                 Res(f.o, f.st, f.o.numChars)))))

\* the conversion (Tcl_UniChar) c of a char holding the byte b: char is a
\* signed type on some builds and an unsigned one on others
CharToUniChar(b, signed) == IF signed /\ b >= 128 THEN 65280 + b ELSE b

\* the value with its character count known, as the readers first make it
WithCharLength(o0) ==
  Bind(SetStringFromAny(o0), LAMBDA o :
    IF o.numChars = -1 THEN Tcl_GetCharLength(o) ELSE Res(o, "ok", 0))

\* Tcl_GetUniChar(objPtr, index), index in range
Tcl_GetUniChar(o0, index, signed, g) ==
  Bind(WithCharLength(o0), LAMBDA r :
    IF r.st # "ok" THEN r
    ELSE IF r.o.hasUnicode = 0
      THEN IF r.o.bk = "null" THEN Res(r.o, "crash", 0)
           ELSE Res(r.o, "ok",
                    CharToUniChar(ByteBuf(r.o, index + 1, g)[index + 1], signed))
    ELSE Res(r.o, "ok", UniBuf(r.o, index + 1, g)[index + 1]))

\* the value with its unicode buffer filled, as Tcl_GetUnicodeFromObj and
\* Tcl_AppendObjToObj first make it
WithUnicode(o0) ==
  Bind(SetStringFromAny(o0), LAMBDA o :
    IF o.numChars = -1 \/ o.hasUnicode = 0
      THEN FillUnicodeRep(o) ELSE Res(o, "ok", 0))

\* a Tcl_GetUnicodeFromObj that gives up the bytes once the code units exist
Tcl_GetUnicodeFromObjOnly(o0) ==
  Bind(WithUnicode(o0), LAMBDA r :
    IF r.st # "ok" THEN r
    ELSE Res(IF r.o.hasUnicode # 0 THEN TclInvalidateStringRep(r.o) ELSE r.o,
             "ok", <<r.o.unicode, r.o.numChars>>))

\* Tcl_GetUnicodeFromObj(objPtr, lengthPtr): returns <<unicode, *lengthPtr>>
Tcl_GetUnicodeFromObj(o0) ==
  Bind(WithUnicode(o0), LAMBDA r :
    IF r.st # "ok" THEN r
    ELSE Res(r.o, "ok", <<r.o.unicode, r.o.numChars>>))

\* a Tcl_GetRange that takes the range from the bytes whenever the value
\* has bytes, whatever its character count
Tcl_GetRangeOfBytes(o0, first, last, g) ==
  Bind(WithCharLength(o0), LAMBDA r :
    IF r.st # "ok" THEN r
    ELSE IF r.o.bk # "null"
      THEN Res(r.o, "ok",
               [SetStringFromAny(Tcl_NewStringObj(
                   SubSeq(ByteBuf(r.o, last + 1, g), first + 1, last + 1)))
                EXCEPT !.numChars = last - first + 1])
      ELSE Res(r.o, "ok",
               Tcl_NewUnicodeObj(
                   SubSeq(UniBuf(r.o, last + 1, g), first + 1, last + 1),
                   last - first + 1)))

\* Tcl_GetRange(objPtr, first, last): returns the new object
Tcl_GetRange(o0, first, last, g) ==
  Bind(WithCharLength(o0), LAMBDA r :
    IF r.st # "ok" THEN r
    ELSE IF r.o.bk # "null" /\ r.o.numChars = r.o.length
      THEN Res(r.o, "ok",
               [SetStringFromAny(Tcl_NewStringObj(
                   SubSeq(ByteBuf(r.o, last + 1, g), first + 1, last + 1)))
                EXCEPT !.numChars = last - first + 1])
      ELSE Res(r.o, "ok",
               Tcl_NewUnicodeObj(
                   SubSeq(UniBuf(r.o, last + 1, g), first + 1, last + 1),
                   last - first + 1)))

\* what TclStringObjReverse returns: the object holding the result, which is
\* objPtr itself when same
Reversed(o, st, same, obj) == Res(o, st, [same |-> same, obj |-> obj])

\* TclStringObjReverse(objPtr)
TclStringObjReverse(o0, sh, g) ==
  Bind(Tcl_GetCharLength(o0), LAMBDA c :
    IF c.st # "ok" THEN Reversed(c.o, c.st, TRUE, c.o)
    ELSE IF c.ret <= 1 THEN Reversed(c.o, "ok", TRUE, c.o)
    ELSE IF c.o.hasUnicode # 0
      THEN
        Bind(Rev(UniBuf(c.o, c.ret, g)), LAMBDA rev :
          IF sh
            THEN Bind(Tcl_SetObjLength(Tcl_NewUnicodeObj(<<0>>, 1), c.ret,
                                       FALSE, TRUE, g).o, LAMBDA fresh :
                   Reversed(c.o, "ok", FALSE, [fresh EXCEPT !.unicode = rev]))
            ELSE Bind([TclInvalidateStringRep(c.o) EXCEPT
                         !.unicode = rev, !.allocated = 0], LAMBDA o1 :
                   Reversed(o1, "ok", TRUE, o1)))
    ELSE
      Bind(TclGetString(c.o, g), LAMBDA tg :
        IF tg.st # "ok" THEN Reversed(tg.o, tg.st, TRUE, tg.o)
        ELSE
          Bind(Rev(ByteBuf(tg.o, c.ret, g)), LAMBDA rev :
            IF sh
              THEN Bind(Tcl_SetObjLength(TclNewObj, c.ret, FALSE, TRUE, g).o,
                        LAMBDA fresh :
                     Reversed(tg.o, "ok", FALSE, [fresh EXCEPT !.bytes = rev]))
              ELSE Bind([tg.o EXCEPT !.bytes = rev \o Drop(tg.o.bytes, c.ret)],
                        LAMBDA o1 :
                     Reversed(o1, "ok", TRUE, o1)))))

----------------------------------------------------------------------------
(* The public appends.                                                     *)

\* the append of the bytes b to a value by the representation it has
AppendUtf(o, b, sh, attemptOk, g) ==
  IF o.hasUnicode # 0
    THEN AppendUtfToUnicodeRep(o, b)
    ELSE AppendUtfToUtfRep(o, b, sh, attemptOk, g)

\* a Tcl_AppendLimitedToObj that cuts the source where the limit falls
Tcl_AppendLimitedToObjAtLimit(o0, b, limit, ell, sh, attemptOk, g) ==
  IF sh THEN Res(o0, "panic", 0)
  ELSE
    Bind(SetStringFromAny(o0), LAMBDA o :
      IF Len(b) = 0 THEN Res(o, "ok", 0)
      ELSE IF Len(b) <= limit THEN AppendUtf(o, b, sh, attemptOk, g)
      ELSE
        Bind(Take(b, limit - Len(ell)), LAMBDA head :
        Bind(AppendUtf(o, head, sh, attemptOk, g), LAMBDA r1 :
          IF r1.st # "ok" THEN r1
          ELSE AppendUtf(r1.o, ell, sh, attemptOk, g))))

\* Tcl_AppendLimitedToObj(objPtr, bytes, length, limit, ellipsis); ell is the
\* ellipsis in use ("..." when the argument is NULL)
Tcl_AppendLimitedToObj(o0, b, limit, ell, sh, attemptOk, g) ==
  IF sh THEN Res(o0, "panic", 0)
  ELSE
    Bind(SetStringFromAny(o0), LAMBDA o :
      IF Len(b) = 0 THEN Res(o, "ok", 0)
      ELSE IF Len(b) <= limit THEN AppendUtf(o, b, sh, attemptOk, g)
      ELSE
        Bind(Take(b, Tcl_UtfPrev(b, limit + 1 - Len(ell))), LAMBDA head :
        Bind(AppendUtf(o, head, sh, attemptOk, g), LAMBDA r1 :
          IF r1.st # "ok" THEN r1
          ELSE AppendUtf(r1.o, ell, sh, attemptOk, g))))

\* Tcl_AppendToObj(objPtr, bytes, length)
Tcl_AppendToObj(o, b, sh, attemptOk, g) ==
  Tcl_AppendLimitedToObj(o, b, INT_MAX, <<>>, sh, attemptOk, g)

\* Tcl_AppendUnicodeToObj(objPtr, unicode, length)
Tcl_AppendUnicodeToObj(o0, u, sh, attemptOk, g) ==
  IF sh THEN Res(o0, "panic", 0)
  ELSE IF Len(u) = 0 THEN Res(o0, "ok", 0)
  ELSE Bind(SetStringFromAny(o0), LAMBDA o :
         IF o.hasUnicode # 0 THEN AppendUnicodeToUnicodeRep(o, u, attemptOk, g)
         ELSE AppendUnicodeToUtfRep(o, u))

\* Tcl_AppendObjToObj(objPtr, appendObjPtr), two distinct string values; the
\* result's ret is appendObjPtr after the call
Tcl_AppendObjToObj(o0, ap, sh, attemptOk, g) ==
  Bind(SetStringFromAny(o0), LAMBDA o :
    IF o.hasUnicode # 0 /\ ap.typ = "string"
      \* both have a unicode rep, or appendObjPtr is given one
      THEN Bind(WithUnicode(ap), LAMBDA fill :
             IF fill.st # "ok" THEN Res(o, fill.st, fill.o)
             ELSE Bind(AppendUnicodeToUnicodeRep(o, fill.o.unicode,
                                                 attemptOk, g), LAMBDA uu :
                    Res(uu.o, uu.st, fill.o)))
    ELSE
      Bind(TclGetString(ap, g), LAMBDA gs :
        IF gs.st # "ok" THEN Res(o, gs.st, gs.o)
        ELSE IF o.hasUnicode # 0
          THEN Bind(AppendUtfToUnicodeRep(o, gs.ret), LAMBDA bu :
                 Res(bu.o, bu.st, gs.o))
        ELSE
          \* objPtr has only bytes
          Bind(AppendUtfToUtfRep(o, gs.ret, sh, attemptOk, g), LAMBDA bb :
            IF bb.st # "ok" THEN Res(bb.o, bb.st, gs.o)
            ELSE IF /\ o.numChars >= 0
                    /\ gs.o.typ = "string"
                    /\ gs.o.numChars >= 0
                    /\ gs.o.numChars = gs.o.length
              THEN Res([bb.o EXCEPT !.numChars = o.numChars + gs.o.numChars],
                       "ok", gs.o)
            ELSE Res(bb.o, "ok", gs.o))))

\* what a read through a pointer into the block buf finds after realloc has
\* moved the block and released it: what the block held, when that is kept,
\* or what has been written there since
Released(buf, kept, g) == IF kept THEN buf ELSE [k \in 1..Len(buf) |-> g]

\* Tcl_AppendObjToObj(objPtr, objPtr), a string value appended to itself: the
\* source of the copy is the pointer taken before the growth step. moved:
\* the realloc of the growth step returns another block; kept: the released
\* block still holds what it held; ret: the copy has read the released block
Tcl_AppendObjToSelf(o0, sh, attemptOk, moved, kept, g) ==
  Bind(SetStringFromAny(o0), LAMBDA o :
    IF o.hasUnicode # 0
      THEN Bind(WithUnicode(o), LAMBDA fill :
             IF fill.st # "ok" THEN Res(fill.o, fill.st, FALSE)
             ELSE
               Bind(/\ moved
                    /\ Len(fill.o.unicode) > 0
                    /\ STRING_UALLOC(2 * fill.o.numChars)
                         >= fill.o.uallocated, LAMBDA stale :
               Bind(AppendUnicodeToUnicodeRep(
                      fill.o,
                      IF stale THEN Released(fill.o.unicode, kept, g)
                      ELSE fill.o.unicode,
                      attemptOk, g), LAMBDA uu :
                 Res(uu.o, uu.st, stale))))
    ELSE
      Bind(TclGetString(o, g), LAMBDA gs :
        IF gs.st # "ok" THEN Res(gs.o, gs.st, FALSE)
        ELSE
          Bind(/\ moved
               /\ Len(gs.ret) > 0
               /\ 2 * Len(gs.ret) > gs.o.allocated, LAMBDA stale :
          Bind(AppendUtfToUtfRep(gs.o,
                                 IF stale THEN Released(gs.ret, kept, g)
                                 ELSE gs.ret,
                                 sh, attemptOk, g), LAMBDA bb :
            IF bb.st # "ok" THEN Res(bb.o, bb.st, stale)
            ELSE IF gs.o.numChars >= 0 /\ gs.o.numChars = gs.o.length
              THEN Res([bb.o EXCEPT !.numChars = 2 * gs.o.numChars],
                       "ok", stale)
            ELSE Res(bb.o, "ok", stale)))))

RECURSIVE Flatten(_)
Flatten(ss) == IF ss = <<>> THEN <<>> ELSE Head(ss) \o Flatten(Tail(ss))

\* Tcl_AppendStringsToObjVA(objPtr, argList); strs: the strings before the
\* terminating NULL argument
Tcl_AppendStringsToObjVA(o0, strs, sh, attemptOk, g) ==
  IF sh THEN Res(o0, "panic", 0)
  ELSE
    Bind(SetStringFromAny(o0), LAMBDA o :
    Bind(Flatten(strs), LAMBDA all :
      IF Len(all) = 0 THEN Res(o, "ok", 0)
      ELSE
        Bind(IF o.length + Len(all) <= o.allocated THEN Res(o, "ok", 1)
             ELSE IF o.length = 0
               THEN Tcl_SetObjLength(o, Len(all), sh, TRUE, g)
             ELSE Bind(Tcl_AttemptSetObjLength(o, 2 * (o.length + Len(all)),
                                               sh, attemptOk, g), LAMBDA a :
                    IF a.st = "ok" /\ a.ret = 0
                      THEN Tcl_SetObjLength(a.o, o.length + (2 * Len(all))
                                                 + TCL_GROWTH_MIN_ALLOC,
                                            sh, TRUE, g)
                      ELSE a), LAMBDA s :
          IF s.st # "ok" THEN Res(s.o, s.st, 0)
          ELSE CopyBytes(s.o, o.length, all, g))))

\* Tcl_DuplicateObj with DupStringInternalRep
Tcl_DuplicateObj(src) ==
  Bind(IF src.bk = "null" THEN TclInvalidateStringRep(TclNewObj)
       ELSE IF src.bk = "heap" THEN TclInitStringRep(TclNewObj, src.bytes)
       ELSE TclNewObj, LAMBDA c0 :
    IF src.typ # "string" THEN c0
    ELSE [c0 EXCEPT !.typ = "string",
                    !.uallocated = IF src.hasUnicode = 0
                                     THEN STRING_UALLOC(0) ELSE src.uallocated,
                    !.unicode = IF src.hasUnicode = 0 THEN <<>> ELSE src.unicode,
                    !.numChars = src.numChars,
                    !.hasUnicode = src.hasUnicode,
                    !.allocated = c0.length])

----------------------------------------------------------------------------
(* Tcl_AppendFormatToObj: the format string f is a byte sequence followed  *)
(* by its NUL, objv a sequence of values. The values of objv are changed   *)
(* by the reads made of them (a count is cached, bytes are generated), so  *)
(* objv is carried through the call.                                       *)

\* the ASCII characters the format engine tells apart
Ch ==
  [space |-> 32, hash |-> 35, dollar |-> 36, percent |-> 37, star |-> 42,
   plus |-> 43, minus |-> 45, dot |-> 46, zero |-> 48, nine |-> 57,
   E |-> 69, G |-> 71, X |-> 88, a |-> 97, b |-> 98, c |-> 99, d |-> 100,
   e |-> 101, f |-> 102, g |-> 103, h |-> 104, i |-> 105, l |-> 108,
   o |-> 111, q |-> 113, s |-> 115, u |-> 117, x |-> 120, z |-> 122]

\* isdigit(UCHAR(ch))
IsDigit(ch) == (ch % 256) >= Ch.zero /\ (ch % 256) <= Ch.nine

RECURSIVE Strtoul(_, _, _)
\* strtoul(format, &end, 10) at offset p, where no white space or sign is:
\* <<the number, the offset end>>; acc is the number read so far
Strtoul(f, p, acc) ==
  IF ByteAt(f, p) >= Ch.zero /\ ByteAt(f, p) <= Ch.nine
    THEN Bind(<<p + 1, 10 * acc + (ByteAt(f, p) - Ch.zero)>>, LAMBDA n :
           Strtoul(f, n[1], n[2]))
    ELSE <<acc, p>>

\* TclGetIntFromObj and its long, wide and bignum variants (tclObj.c) on a
\* value whose bytes are an optional '-' and decimal digits: the value
\* becomes one of a numeric type and keeps its bytes; ok: TCL_OK
TclGetIntFromObj(obj, g) ==
  Bind(TclGetString(obj, g), LAMBDA r :
    IF r.st # "ok" THEN [ok |-> FALSE, n |-> 0, o |-> r.o]
    ELSE
      Bind(IF ByteAt(r.ret, 0) = Ch.minus THEN 1 ELSE 0, LAMBDA from :
      Bind(Strtoul(r.ret, from, 0), LAMBDA n :
        IF n[2] = Len(r.ret) /\ n[2] > from
          THEN [ok |-> TRUE, n |-> IF from = 1 THEN 0 - n[1] ELSE n[1],
                o |-> TclFreeIntRep(r.o)]
          ELSE [ok |-> FALSE, n |-> 0, o |-> r.o])))

\* the state of the scan of one conversion specifier: the offset p in the
\* format, the character ch decoded there and its size step, the locals of
\* the loop body, err once the specifier is rejected, and the indexes at
\* which the specifier has read objv
NewSpecifier(objv, objIndex, gotXpg, gotSequential) ==
  [p |-> 0, ch |-> 0, step |-> 0, objv |-> objv, objIndex |-> objIndex,
   gotXpg |-> gotXpg, gotSequential |-> gotSequential, newXpg |-> FALSE,
   gotMinus |-> FALSE, gotHash |-> FALSE, gotZero |-> FALSE,
   gotSpace |-> FALSE, gotPlus |-> FALSE, width |-> 0,
   gotPrecision |-> FALSE, precision |-> 0, useShort |-> FALSE,
   useWide |-> FALSE, useBig |-> FALSE, err |-> FALSE, reads |-> <<>>]

\* format = format + p; step = Tcl_UtfToUniChar(format, &ch)
At(f, s, p) ==
  Bind(Tcl_UtfToUniChar(f, p), LAMBDA r :
    [s EXCEPT !.p = p, !.ch = r[1], !.step = r[2]])

\* format += step; step = Tcl_UtfToUniChar(format, &ch)
NextChar(f, s) == At(f, s, s.p + s.step)

\* goto errorMsg, goto error
Rejected(s) == [s EXCEPT !.err = TRUE]

\* a Step 1 that lets a positional specifier follow a sequential one
XpgPositionAfterSequential(f, s) ==
  Bind(IF IsDigit(s.ch)
         THEN Bind(Strtoul(f, s.p, 0), LAMBDA n :
                IF ByteAt(f, n[2]) = Ch.dollar
                  THEN [At(f, s, n[2] + 1) EXCEPT !.newXpg = TRUE,
                                                  !.objIndex = n[1] - 1]
                  ELSE s)
         ELSE s, LAMBDA s1 :
    IF ~s1.newXpg /\ s1.gotXpg THEN Rejected(s1)
    ELSE IF s1.objIndex < 0 \/ s1.objIndex >= Len(s1.objv) THEN Rejected(s1)
    ELSE IF s1.newXpg THEN [s1 EXCEPT !.gotXpg = TRUE]
    ELSE [s1 EXCEPT !.gotSequential = TRUE])

\* a Step 1 that takes the position itself for the index of the argument
XpgPositionFromOne(f, s) ==
  Bind(IF IsDigit(s.ch)
         THEN Bind(Strtoul(f, s.p, 0), LAMBDA n :
                IF ByteAt(f, n[2]) = Ch.dollar
                  THEN [At(f, s, n[2] + 1) EXCEPT !.newXpg = TRUE,
                                                  !.objIndex = n[1]]
                  ELSE s)
         ELSE s, LAMBDA s1 :
    IF s1.newXpg /\ s1.gotSequential THEN Rejected(s1)
    ELSE IF ~s1.newXpg /\ s1.gotXpg THEN Rejected(s1)
    ELSE IF s1.objIndex < 0 \/ s1.objIndex >= Len(s1.objv) THEN Rejected(s1)
    ELSE IF s1.newXpg THEN [s1 EXCEPT !.gotXpg = TRUE]
    ELSE [s1 EXCEPT !.gotSequential = TRUE])

\* Step 1: the XPG3 position specifier, and the argument it designates
XpgPosition(f, s) ==
  Bind(IF IsDigit(s.ch)
         THEN Bind(Strtoul(f, s.p, 0), LAMBDA n :
                IF ByteAt(f, n[2]) = Ch.dollar
                  THEN [At(f, s, n[2] + 1) EXCEPT !.newXpg = TRUE,
                                                  !.objIndex = n[1] - 1]
                  ELSE s)
         ELSE s, LAMBDA s1 :
    IF s1.newXpg /\ s1.gotSequential THEN Rejected(s1)
    ELSE IF ~s1.newXpg /\ s1.gotXpg THEN Rejected(s1)
    ELSE IF s1.objIndex < 0 \/ s1.objIndex >= Len(s1.objv) THEN Rejected(s1)
    ELSE IF s1.newXpg THEN [s1 EXCEPT !.gotXpg = TRUE]
    ELSE [s1 EXCEPT !.gotSequential = TRUE])

RECURSIVE Flags(_, _)
\* Step 2: the set of flags
Flags(f, s) ==
  IF s.ch \in {Ch.minus, Ch.hash, Ch.zero, Ch.space, Ch.plus}
    THEN Bind([NextChar(f, s) EXCEPT
                 !.gotMinus = s.gotMinus \/ s.ch = Ch.minus,
                 !.gotHash = s.gotHash \/ s.ch = Ch.hash,
                 !.gotZero = s.gotZero \/ s.ch = Ch.zero,
                 !.gotSpace = s.gotSpace \/ s.ch = Ch.space,
                 !.gotPlus = s.gotPlus \/ s.ch = Ch.plus], LAMBDA s1 :
           Flags(f, s1))
    ELSE s

\* objIndex is the index of one of the objc values of objv
Given(s) == s.objIndex >= 0 /\ s.objIndex < Len(s.objv)

\* the read of objv[objIndex] is noted
ReadAt(s) == [s EXCEPT !.reads = Append(s.reads, s.objIndex)]

\* objv[objIndex]; a read beyond the vector yields an indeterminate pointer,
\* taken here for a value of the one byte g
Argument(s, g) ==
  IF Given(s) THEN s.objv[s.objIndex + 1] ELSE Tcl_NewStringObj(<<g>>)

\* the value objv[objIndex] points to has become o
Passed(s, o) ==
  IF Given(s) THEN [s EXCEPT !.objv[s.objIndex + 1] = o] ELSE s

\* a '*' that takes its int without the check that a value is left for the
\* conversion
StarArgumentUnchecked(f, s, g) ==
  Bind(TclGetIntFromObj(Argument(s, g), g), LAMBDA w :
    IF ~w.ok THEN Res(Rejected(ReadAt(s)), "ok", 0)
    ELSE Res([NextChar(f, Passed(ReadAt(s), w.o)) EXCEPT
                !.objIndex = s.objIndex + 1], "ok", w.n))

\* the int a '*' takes from objv[objIndex]: the specifier with that argument
\* read and passed, and the int as ret, or the specifier rejected
StarArgument(f, s, g) ==
  IF s.objIndex >= Len(s.objv) - 1 THEN Res(Rejected(s), "ok", 0)
  ELSE Bind(TclGetIntFromObj(Argument(s, g), g), LAMBDA w :
         IF ~w.ok THEN Res(Rejected(ReadAt(s)), "ok", 0)
         ELSE Res([NextChar(f, Passed(ReadAt(s), w.o)) EXCEPT
                     !.objIndex = s.objIndex + 1], "ok", w.n))

\* a Step 3 that keeps the sign of a negative width taken from objv
WidthKeepingSign(f, s, g) ==
  IF IsDigit(s.ch)
    THEN Bind(Strtoul(f, s.p, 0), LAMBDA n :
           [At(f, s, n[2]) EXCEPT !.width = n[1]])
  ELSE IF s.ch = Ch.star
    THEN Bind(StarArgument(f, s, g), LAMBDA w :
           IF w.o.err THEN w.o
           ELSE [w.o EXCEPT !.width = w.ret,
                            !.gotMinus = s.gotMinus \/ w.ret < 0])
  ELSE s

\* Step 3: the minimum field width
Width(f, s, g) ==
  IF IsDigit(s.ch)
    THEN Bind(Strtoul(f, s.p, 0), LAMBDA n :
           [At(f, s, n[2]) EXCEPT !.width = n[1]])
  ELSE IF s.ch = Ch.star
    THEN Bind(StarArgument(f, s, g), LAMBDA w :
           IF w.o.err THEN w.o
           ELSE [w.o EXCEPT !.width = IF w.ret < 0 THEN 0 - w.ret ELSE w.ret,
                            !.gotMinus = s.gotMinus \/ w.ret < 0])
  ELSE s

\* Step 4: the precision
Precision(f, s0, g) ==
  Bind(IF s0.ch = Ch.dot THEN [NextChar(f, s0) EXCEPT !.gotPrecision = TRUE]
       ELSE s0, LAMBDA s :
    IF IsDigit(s.ch)
      THEN Bind(Strtoul(f, s.p, 0), LAMBDA n :
             [At(f, s, n[2]) EXCEPT !.precision = n[1]])
    ELSE IF s.ch = Ch.star
      THEN Bind(StarArgument(f, s, g), LAMBDA w :
             IF w.o.err THEN w.o
             ELSE [w.o EXCEPT !.precision = IF w.ret < 0 THEN 0 ELSE w.ret])
    ELSE s)

\* Step 5: the length modifier; wideIsLong: TCL_WIDE_INT_IS_LONG is defined
LengthModifier(f, s, wideIsLong) ==
  IF s.ch = Ch.h THEN [NextChar(f, s) EXCEPT !.useShort = TRUE]
  ELSE IF s.ch = Ch.l
    THEN Bind(NextChar(f, s), LAMBDA s1 :
           IF s1.ch = Ch.l THEN [NextChar(f, s1) EXCEPT !.useBig = TRUE]
           ELSE [s1 EXCEPT !.useWide = ~wideIsLong])
  ELSE s

\* Steps 1 to 5 of the specifier that follows the '%' before offset p
Specifier(f, s0, p, g, wideIsLong) ==
  Bind(At(f, s0, p), LAMBDA s :
  Bind(XpgPosition(f, s), LAMBDA s1 :
    IF s1.err THEN s1
    ELSE
      Bind(Flags(f, s1), LAMBDA s2 :
      Bind(Width(f, s2, g), LAMBDA s3 :
        IF s3.err THEN s3
        ELSE Bind(Precision(f, s3, g), LAMBDA s4 :
               IF s4.err THEN s4
               ELSE LengthModifier(f, s4, wideIsLong))))))

RECURSIVE DigitsOf(_, _)
\* the digits of n > 0 in the base, the most significant first
DigitsOf(n, base) ==
  IF n = 0 THEN <<>>
  ELSE Bind(<<n \div base, n % base>>, LAMBDA qr :
         DigitsOf(qr[1], base)
           \o <<IF qr[2] > 9 THEN Ch.a + qr[2] - 10 ELSE Ch.zero + qr[2]>>)

\* (short int) l
ToShort(l) == ((l + 32768) % 65536) - 32768

\* Tcl_UtfToUpper on ASCII letters and digits
Tcl_UtfToUpper(b) ==
  [k \in 1..Len(b) |-> IF b[k] >= Ch.a /\ b[k] <= Ch.z THEN b[k] - 32 ELSE b[k]]

RECURSIVE AppendTimes(_, _, _, _, _)
\* n times Tcl_AppendToObj(objPtr, b, 1)
AppendTimes(o, b, n, ok, g) ==
  IF n <= 0 THEN Res(o, "ok", 0)
  ELSE Bind(Tcl_AppendToObj(o, b, FALSE, ok, g), LAMBDA r :
         IF r.st # "ok" THEN r
         ELSE Bind(n - 1, LAMBDA m : AppendTimes(r.o, b, m, ok, g)))

\* the segment of the conversions d, u, o, x, X, b of the number l0, which is
\* not negative when the conversion is an unsigned one of a long; a short is
\* converted to unsigned short, the digits of a bignum are those of its
\* magnitude; the appends are made to a new unshared value and do not fail
Numeric(s, ch, l0, g) ==
  Bind(IF s.useShort THEN ToShort(l0) ELSE l0, LAMBDA l :
  Bind(IF (l < 0 \/ s.gotPlus \/ s.gotSpace) /\ (s.useBig \/ ch = Ch.d)
         THEN Tcl_AppendToObj(TclNewObj,
                              <<IF l < 0 THEN Ch.minus
                                ELSE IF s.gotPlus THEN Ch.plus
                                ELSE Ch.space>>, FALSE, TRUE, g).o
         ELSE TclNewObj, LAMBDA seg1 :
  Bind(IF s.gotHash /\ ch = Ch.o
         THEN Tcl_AppendToObj(seg1, <<Ch.zero>>, FALSE, TRUE, g).o
       ELSE IF s.gotHash /\ ch \in {Ch.x, Ch.X}
         THEN Tcl_AppendToObj(seg1, <<Ch.zero, Ch.x>>, FALSE, TRUE, g).o
       ELSE IF s.gotHash /\ ch = Ch.b
         THEN Tcl_AppendToObj(seg1, <<Ch.zero, Ch.b>>, FALSE, TRUE, g).o
       ELSE seg1, LAMBDA seg2 :
  Bind(IF ch = Ch.d
         THEN (IF l = 0 THEN <<Ch.zero>>
               ELSE DigitsOf(IF l < 0 THEN 0 - l ELSE l, 10))
         ELSE Bind(DigitsOf(IF s.useShort THEN l % 65536
                            ELSE IF s.useBig /\ l < 0 THEN 0 - l ELSE l,
                            IF ch = Ch.u THEN 10 ELSE IF ch = Ch.o THEN 8
                            ELSE IF ch = Ch.b THEN 2 ELSE 16), LAMBDA ds :
                IF Len(ds) = 0 /\ ~(ch = Ch.o /\ s.gotHash)
                  THEN <<Ch.zero>> ELSE ds), LAMBDA bytes :
  Bind(IF s.gotPrecision
         THEN AppendTimes(seg2, <<Ch.zero>>,
                          (IF s.gotHash /\ ch = Ch.o
                             THEN s.precision - 1 ELSE s.precision)
                          - Len(bytes), TRUE, g).o
       ELSE IF s.gotZero
         THEN Bind(Tcl_GetCharLength(seg2), LAMBDA c :
                AppendTimes(c.o, <<Ch.zero>>,
                            s.width - (Len(bytes) + c.ret), TRUE, g).o)
       ELSE seg2, LAMBDA seg3 :
  Bind(IF ch = Ch.d
         THEN Tcl_AppendToObj(seg3, bytes, FALSE, TRUE, g).o
         ELSE Tcl_AppendObjToObj(
                  seg3,
                  [Tcl_SetObjLength(TclNewObj, Len(bytes), FALSE, TRUE, g).o
                     EXCEPT !.bytes = bytes],
                  FALSE, TRUE, g).o, LAMBDA seg4 :
    IF ch = Ch.X
      THEN Bind(TclGetString(seg4, g), LAMBDA r :
             [Tcl_SetObjLength(r.o, Len(r.ret), FALSE, TRUE, g).o
                EXCEPT !.bytes = Tcl_UtfToUpper(r.ret)])
      ELSE seg4))))))

\* what Step 6 makes of a specifier: the specifier, with err when it is
\* rejected, the segment to append and whether it is a new value
Converted(s, seg, alloc) == [s |-> s, seg |-> seg, alloc |-> alloc]

\* a Step 6 that converts %llu like %llx, in base 10
SegmentOfUnsignedBig(s, g) ==
  Bind(IF s.ch = Ch.i THEN Ch.d ELSE s.ch, LAMBDA ch :
    IF ch = Ch.s
      THEN Bind(Tcl_GetCharLength(Argument(s, g)), LAMBDA c :
           Bind(Passed(s, c.o), LAMBDA s1 :
             IF s.gotPrecision /\ s.precision < c.ret
               THEN Converted(s1, Tcl_GetRange(c.o, 0, s.precision - 1, g).ret,
                              TRUE)
               ELSE Converted(s1, c.o, FALSE)))
    ELSE IF ch \in {Ch.c, Ch.d, Ch.u, Ch.o, Ch.x, Ch.X, Ch.b}
      THEN Bind(TclGetIntFromObj(Argument(s, g), g), LAMBDA w :
           Bind(Passed(s, w.o), LAMBDA s1 :
             IF ~w.ok THEN Converted(Rejected(s1), TclNewObj, FALSE)
             ELSE IF ch = Ch.c
               THEN Converted(s1, Tcl_NewStringObj(Tcl_UniCharToUtf(w.n)), TRUE)
             ELSE Converted([s1 EXCEPT !.gotZero = s.gotZero /\ ~s.gotPrecision],
                            Numeric(s, ch, w.n, g), TRUE)))
    \* '\0': the format string ended in the middle of the specifier; any
    \* other character is a bad field specifier
    ELSE Converted(Rejected(s), TclNewObj, FALSE))

\* Step 6: the conversion character. The conversions e, E, f, g, G print
\* through sprintf of the C library and are not followed here: no format of
\* the model has them
Segment(s, g) ==
  Bind(IF s.ch = Ch.i THEN Ch.d ELSE s.ch, LAMBDA ch :
    IF ch = Ch.s
      THEN Bind(Tcl_GetCharLength(Argument(s, g)), LAMBDA c :
           Bind(Passed(s, c.o), LAMBDA s1 :
             IF s.gotPrecision /\ s.precision < c.ret
               THEN Converted(s1, Tcl_GetRange(c.o, 0, s.precision - 1, g).ret,
                              TRUE)
               ELSE Converted(s1, c.o, FALSE)))
    ELSE IF ch = Ch.u /\ s.useBig THEN Converted(Rejected(s), TclNewObj, FALSE)
    ELSE IF ch \in {Ch.c, Ch.d, Ch.u, Ch.o, Ch.x, Ch.X, Ch.b}
      THEN Bind(TclGetIntFromObj(Argument(s, g), g), LAMBDA w :
           Bind(Passed(s, w.o), LAMBDA s1 :
             IF ~w.ok THEN Converted(Rejected(s1), TclNewObj, FALSE)
             ELSE IF ch = Ch.c
               THEN Converted(s1, Tcl_NewStringObj(Tcl_UniCharToUtf(w.n)), TRUE)
             ELSE Converted([s1 EXCEPT !.gotZero = s.gotZero /\ ~s.gotPrecision],
                            Numeric(s, ch, w.n, g), TRUE)))
    \* '\0': the format string ended in the middle of the specifier; any
    \* other character is a bad field specifier
    ELSE Converted(Rejected(s), TclNewObj, FALSE))

\* how Tcl_AppendFormatToObj ends: TCL_OK, or TCL_ERROR after the rollback
\* Tcl_SetObjLength(appendObj, originalLength)
FormatOk(r) == Res(r.o, r.st, "TCL_OK")

FormatError(e, o) ==
  Bind(Tcl_SetObjLength(o, e.originalLength, FALSE, TRUE, e.g), LAMBDA r :
    Res(r.o, r.st, "TCL_ERROR"))

\* the padding to the field width and the append of the segment; ret is the
\* segment after the reads made of it
PadAndAppend(e, o, s, seg) ==
  Bind(Tcl_GetCharLength(seg), LAMBDA c :
  Bind(<<IF s.gotZero THEN Ch.zero ELSE Ch.space>>, LAMBDA pad :
  Bind(IF s.gotMinus THEN Res(o, "ok", 0)
       ELSE AppendTimes(o, pad, s.width - c.ret, e.ok, e.g), LAMBDA r1 :
    IF r1.st # "ok" THEN Res(r1.o, r1.st, c.o)
    ELSE
      Bind(Tcl_AppendObjToObj(r1.o, c.o, FALSE, e.ok, e.g), LAMBDA r2 :
        IF r2.st # "ok" \/ ~s.gotMinus THEN r2
        ELSE Bind(AppendTimes(r2.o, pad, s.width - c.ret, e.ok, e.g),
                  LAMBDA r3 : Res(r3.o, r3.st, r2.ret))))))

\* a flush that takes the span from the byte before it on
FlushSpanFromBefore(e, t) ==
  IF t.numBytes = 0 THEN Res(t.o, "ok", 0)
  ELSE Tcl_AppendToObj(t.o, SubSeq(e.f, Max(t.span, 1), t.span + t.numBytes),
                       FALSE, e.ok, e.g)

\* Tcl_AppendToObj(appendObj, span, numBytes) when numBytes is not 0
FlushSpan(e, t) ==
  IF t.numBytes = 0 THEN Res(t.o, "ok", 0)
  ELSE Tcl_AppendToObj(t.o, SubSeq(e.f, t.span + 1, t.span + t.numBytes),
                       FALSE, e.ok, e.g)

RECURSIVE SpanEnd(_, _)
\* the offset the loop over the format reaches from the offset p on while
\* the characters it decodes are not '%': that of the next '%' or of the
\* end of the format
SpanEnd(f, p) ==
  IF ByteAt(f, p) = 0 \/ Tcl_UtfToUniChar(f, p)[1] = Ch.percent THEN p
  ELSE SpanEnd(f, p + Tcl_UtfToUniChar(f, p)[2])

RECURSIVE FormatLoop(_, _)
\* the loop over the format from offset t.p on; e: what stays as it is
\* during the call, t: appendObj, objv and the locals of the function
FormatLoop(e, t) ==
  IF ByteAt(e.f, t.p) = 0 THEN FormatOk(FlushSpan(e, t))
  ELSE
    Bind(Tcl_UtfToUniChar(e.f, t.p), LAMBDA r :
      IF r[1] # Ch.percent
        THEN Bind(SpanEnd(e.f, t.p + r[2]), LAMBDA q :
             Bind([t EXCEPT !.p = q,
                            !.numBytes = t.numBytes + (q - t.p)], LAMBDA t1 :
               FormatLoop(e, t1)))
      ELSE
        Bind(FlushSpan(e, t), LAMBDA a :
        Bind(t.p + r[2], LAMBDA p :
          IF a.st # "ok" THEN FormatOk(a)
          \* Step 0: the escaped format marker %%
          ELSE IF ByteAt(e.f, p) = Ch.percent
            THEN Bind([t EXCEPT !.o = a.o, !.span = p, !.numBytes = 1,
                                !.p = p + 1], LAMBDA t1 :
                   FormatLoop(e, t1))
          ELSE
            Bind(Specifier(e.f,
                           NewSpecifier(t.objv, t.objIndex, t.gotXpg,
                                        t.gotSequential),
                           p, e.g, e.wideIsLong), LAMBDA s :
              IF s.err THEN FormatError(e, a.o)
              ELSE
                Bind(Segment(ReadAt(s), e.g), LAMBDA cv :
                  IF cv.s.err THEN FormatError(e, a.o)
                  ELSE
                    Bind(PadAndAppend(e, a.o, cv.s, cv.seg), LAMBDA w :
                      IF w.st # "ok" THEN FormatOk(w)
                      ELSE
                        Bind([o |-> w.o,
                              objv |-> IF cv.alloc THEN cv.s.objv
                                       ELSE Passed(cv.s, w.ret).objv,
                              p |-> s.p + s.step,
                              span |-> s.p + s.step,
                              numBytes |-> 0,
                              objIndex |-> cv.s.objIndex
                                 + (IF s.gotSequential THEN 1 ELSE 0),
                              gotXpg |-> s.gotXpg,
                              gotSequential |-> s.gotSequential], LAMBDA t1 :
                          FormatLoop(e, t1))))))))

\* Tcl_AppendFormatToObj(interp, appendObj, format, objc, objv): ret is
\* TCL_OK or TCL_ERROR
Tcl_AppendFormatToObj(o, f, objv, sh, ok, g, wideIsLong) ==
  IF sh THEN Res(o, "panic", "TCL_OK")
  ELSE
    Bind(TclGetString(o, g), LAMBDA r :
      IF r.st # "ok" THEN FormatOk(r)
      ELSE FormatLoop([f |-> f, originalLength |-> r.o.length, ok |-> ok,
                       g |-> g, wideIsLong |-> wideIsLong],
                      [o |-> r.o, objv |-> objv, p |-> 0, span |-> 0,
                       numBytes |-> 0, objIndex |-> 0, gotXpg |-> FALSE,
                       gotSequential |-> FALSE]))

----------------------------------------------------------------------------
(* The variadic front-end: AppendPrintfToObjVA, Tcl_AppendPrintfToObj and   *)
(* Tcl_ObjPrintf. argList is the sequence of the native arguments the       *)
(* caller passed, each with the type it was passed as.                      *)

\* the native arguments: an int, a long, a double holding a whole number,
\* a char * to the bytes b followed by a NUL
IntArg(n) == [kind |-> "int", n |-> n, b |-> <<>>]

LongArg(n) == [kind |-> "long", n |-> n, b |-> <<>>]

DoubleArg(n) == [kind |-> "double", n |-> n, b |-> <<>>]

StrArg(b) == [kind |-> "str", n |-> 0, b |-> b]

\* the decimal numeral of n
Numeral(n) ==
  IF n < 0 THEN <<Ch.minus>> \o DigitsOf(0 - n, 10)
  ELSE IF n = 0 THEN <<Ch.zero>>
  ELSE DigitsOf(n, 10)

\* Tcl_NewLongObj, Tcl_NewIntObj (tclObj.c): a value whose bytes, once
\* generated, are the numeral of n
Tcl_NewLongObj(n) == Tcl_NewStringObj(Numeral(n))

\* Tcl_NewDoubleObj (tclObj.c) of a whole number
Tcl_NewDoubleObj(n) == Tcl_NewStringObj(Numeral(n) \o <<Ch.dot, Ch.zero>>)

\* Tcl_UtfCharComplete(src, length) (tclUtf.c) for src at the offset q of s
Tcl_UtfCharComplete(s, q, length) ==
  length >= (IF ByteAt(s, q) < 192 THEN 1
             ELSE IF ByteAt(s, q) < 224 THEN 2
             ELSE IF ByteAt(s, q) < 240 THEN 3 ELSE 1)

\* the bytes case 's' of the scan copies from the string bytes: up to the
\* NUL or, under a precision, up to lastNum bytes, without a partial
\* character at the end and without continuation bytes at the start
PrintfString(bytes, gotPrecision, lastNum) ==
  Bind(IF gotPrecision /\ lastNum >= 0 THEN Min(lastNum, Len(bytes))
       ELSE Len(bytes), LAMBDA end0 :
  Bind(Tcl_UtfPrev(bytes, end0), LAMBDA q :
  Bind(IF Tcl_UtfCharComplete(bytes, q, end0 - q) THEN end0 ELSE q,
       LAMBDA end :
  Bind(Cardinality({k \in 0..(TCL_UTF_MAX - 1) :
                      \A j \in 0..k : j < end /\ IsTrail(ByteAt(bytes, j))}),
       LAMBDA start :
    SubSeq(bytes, start + 1, end)))))

\* va_arg(argList, type): the next native argument when it was passed as
\* that type; otherwise the read is undefined: ub is set and the argument
\* read is indeterminate, and wild is set when it is a pointer, which the
\* scan reads through
VaArg(t, kind, g) ==
  IF t.args # <<>> /\ Head(t.args).kind = kind
    THEN [t EXCEPT !.args = Tail(t.args), !.arg = Head(t.args)]
    ELSE [t EXCEPT !.args = IF t.args = <<>> THEN <<>> ELSE Tail(t.args),
                   !.ub = TRUE,
                   !.wild = t.wild \/ kind = "str",
                   !.arg = [kind |-> kind, n |-> g, b |-> <<g>>]]

RECURSIVE SeekConversion(_, _, _, _)
\* the do loop of the scan, at the offset c.p of the format with the locals
\* size, gotPrecision and lastNum in c; t: argList and the list so far. It
\* ends at the conversion character or at the end of the format
SeekConversion(f, t, c, g) ==
  Bind(ByteAt(f, c.p), LAMBDA ch :
    IF ch = 0 THEN [t EXCEPT !.p = c.p]
    ELSE IF ch = Ch.s
      THEN Bind(VaArg(t, "str", g), LAMBDA a :
             [a EXCEPT !.p = c.p,
                       !.list = Append(a.list,
                                  Tcl_NewStringObj(
                                    PrintfString(a.arg.b, c.gotPrecision,
                                                 c.lastNum)))])
    ELSE IF ch \in {Ch.c, Ch.i, Ch.u, Ch.d, Ch.o, Ch.x, Ch.X}
      THEN Bind(VaArg(t, IF c.size = 1 THEN "long" ELSE "int", g), LAMBDA a :
             [a EXCEPT !.p = c.p,
                       !.list = Append(a.list, Tcl_NewLongObj(a.arg.n))])
    ELSE IF ch \in {Ch.e, Ch.E, Ch.f, Ch.g, Ch.G}
      THEN Bind(VaArg(t, "double", g), LAMBDA a :
             [a EXCEPT !.p = c.p,
                       !.list = Append(a.list, Tcl_NewDoubleObj(a.arg.n))])
    ELSE IF ch = Ch.star
      THEN Bind(VaArg(t, "int", g), LAMBDA a :
             SeekConversion(f,
               [a EXCEPT !.list = Append(a.list, Tcl_NewLongObj(a.arg.n))],
               [c EXCEPT !.p = c.p + 1, !.lastNum = a.arg.n], g))
    ELSE IF ch >= Ch.zero /\ ch <= Ch.nine
      THEN Bind(Strtoul(f, c.p, 0), LAMBDA n :
             SeekConversion(f, t, [c EXCEPT !.p = n[2], !.lastNum = n[1]], g))
    ELSE IF ch = Ch.dot
      THEN SeekConversion(f, t, [c EXCEPT !.p = c.p + 1,
                                          !.gotPrecision = TRUE], g)
    ELSE IF ch = Ch.l
      THEN SeekConversion(f, t, [c EXCEPT !.p = c.p + 1, !.size = 1], g)
    ELSE IF ch = Ch.h
      THEN SeekConversion(f, t, [c EXCEPT !.p = c.p + 1, !.size = -1], g)
    ELSE SeekConversion(f, t, [c EXCEPT !.p = c.p + 1], g))

RECURSIVE ScanFormat(_, _, _)
\* the while loop of the scan from the offset t.p of the format on
ScanFormat(f, t, g) ==
  IF ByteAt(f, t.p) = 0 THEN t
  ELSE IF ByteAt(f, t.p) # Ch.percent
    THEN ScanFormat(f, [t EXCEPT !.p = t.p + 1], g)
  ELSE IF ByteAt(f, t.p + 1) = Ch.percent
    THEN ScanFormat(f, [t EXCEPT !.p = t.p + 2], g)
  ELSE Bind(SeekConversion(f, t, [p |-> t.p + 1, size |-> 0,
                                  gotPrecision |-> FALSE, lastNum |-> -1], g),
            LAMBDA t1 : ScanFormat(f, t1, g))

\* the list the scan of the format f makes of argList
Marshalled(f, argList, g) ==
  ScanFormat(f, [p |-> 0, args |-> argList, list |-> <<>>, ub |-> FALSE,
                 wild |-> FALSE, arg |-> IntArg(0)], g)

RECURSIVE ListString(_)
\* Tcl_GetString(list) (tclListObj.c) for elements that have their bytes
\* and no white space, brace, bracket, quote, dollar, semicolon or
\* backslash in them: the elements with a space between them, {} for an
\* empty one
ListString(list) ==
  IF list = <<>> THEN <<>>
  ELSE (IF Head(list).bytes = <<>> THEN <<123, 125>> ELSE Head(list).bytes)
         \o (IF Len(list) = 1 THEN <<>>
             ELSE <<Ch.space>> \o ListString(Tail(list)))

\* "Unable to format \"%s\" with supplied arguments: %s"
UnableToFormat ==
  <<85, 110, 97, 98, 108, 101, 32, 116, 111, 32, 102, 111,
    114, 109, 97, 116, 32, 34, 37, 115, 34, 32, 119, 105,
    116, 104, 32, 115, 117, 112, 112, 108, 105, 101, 100, 32,
    97, 114, 103, 117, 109, 101, 110, 116, 115, 58, 32, 37,
    115>>

RECURSIVE AppendPrintfToObjVA(_, _, _, _, _, _, _)
\* AppendPrintfToObjVA(objPtr, format, argList): ret is the list made of
\* argList, the code Tcl_AppendFormatToObj returned for it, ub when a read
\* of argList was undefined and wild when a pointer so read was read through
AppendPrintfToObjVA(o, f, argList, sh, ok, g, wideIsLong) ==
  Bind(Marshalled(f, argList, g), LAMBDA t :
  Bind(Tcl_AppendFormatToObj(o, f, t.list, sh, ok, g, wideIsLong), LAMBDA r :
    IF r.st # "ok" \/ r.ret = "TCL_OK"
      THEN Res(r.o, r.st, [code |-> r.ret, list |-> t.list, ub |-> t.ub,
                           wild |-> t.wild])
      ELSE Bind(AppendPrintfToObjVA(r.o, UnableToFormat,
                                    <<StrArg(f), StrArg(ListString(t.list))>>,
                                    sh, ok, g, wideIsLong), LAMBDA d :
             Res(d.o, d.st, [code |-> r.ret, list |-> t.list,
                             ub |-> t.ub \/ d.ret.ub,
                             wild |-> t.wild \/ d.ret.wild]))))

\* Tcl_AppendPrintfToObj(objPtr, format, ...)
Tcl_AppendPrintfToObj(o, f, argList, sh, ok, g, wideIsLong) ==
  AppendPrintfToObjVA(o, f, argList, sh, ok, g, wideIsLong)

\* Tcl_ObjPrintf(format, ...): o is the value it returns
Tcl_ObjPrintf(f, argList, ok, g, wideIsLong) ==
  AppendPrintfToObjVA(TclNewObj, f, argList, FALSE, ok, g, wideIsLong)

----------------------------------------------------------------------------
(* The state machine: one string value v under the public operations.      *)
(* Whether the value is shared (Tcl_IsShared) is not part of the value: it *)
(* is what the reference-counting runtime shows to each call, an input sh  *)
(* of the call. So is the signedness of char in the build that runs it.    *)
(*   fatal       "none", or how the process ended: "panic" (Tcl_Panic) or  *)
(*               "crash" (a write or read through an invalid pointer)      *)
(*   call        the call that has just ended: its name, v before it,      *)
(*               whether v was seen as shared, its arguments, whether its  *)
(*               allocation attempt succeeded, how it ended, what it       *)
(*               returned, v after it; Idle once the caller has gone on    *)
(*   origin      what v was constructed from, while only reads followed    *)
(*   ops         the number of calls made on v since its construction      *)

\* what a value is constructed from when only read afterwards
ByteArgs == SeqsUpTo(ByteVals, MaxCtor)

UniArgs == SeqsUpTo(UniVals \cup {0}, MaxCtor)

\* what is appended or assigned: nothing, one one-byte character, one
\* two-byte character
AppBytes == {<<>>, <<97>>, <<196, 128>>}

AppUnis == {<<>>} \cup {<<c>> : c \in UniVals}

\* the values a second operand can be: constructed from bytes or code units,
\* then possibly read
ArgObjs ==
  {Tcl_NewStringObj(b) : b \in AppBytes}
    \cup {Tcl_GetCharLength(Tcl_NewStringObj(b)).o : b \in AppBytes}
    \cup {Tcl_GetUnicodeFromObj(Tcl_NewStringObj(b)).o : b \in AppBytes}
    \cup {Tcl_NewUnicodeObj(u, Len(u)) : u \in AppUnis}
    \cup {TclGetString(Tcl_NewUnicodeObj(u, Len(u)), 0).o : u \in AppUnis}

\* the size of a value, which the appends keep within MaxVal
Size(o) == Max(Max(Len(o.bytes), Len(o.unicode)), o.length)

NoOrigin == [kind |-> "none", data |-> <<>>, explicit |-> TRUE]

\* the arguments of a call: bytes b, code units u, a length or first index
\* n, a limit or last index m, an ellipsis ell, a second value ap, the
\* strings strs of a variadic call, the signedness of char in the build, the
\* values objv to format (the format string is b), the pieces the format
\* string was put together from, the native arguments argList of a call of
\* the front-end, and the locals of a loop that is followed step by step
NoArgs ==
  [b |-> <<>>, u |-> <<>>, n |-> 0, m |-> 0, ell |-> <<>>, ap |-> TclNewObj,
   strs |-> <<>>, signed |-> FALSE, objv |-> <<>>, pieces |-> <<>>,
   argList |-> <<>>, loop |-> <<>>]

\* what a call returns: a number n, a sequence s, a value obj, which is the
\* value the call was made on when same, a completion code
NoRet ==
  [n |-> 0, s |-> <<>>, obj |-> TclNewObj, same |-> FALSE, code |-> "TCL_OK",
   ub |-> FALSE]

Call(op, sh, a, ok, r, ret) ==
  [op |-> op, pre |-> v, psh |-> sh, a |-> a, ok |-> ok,
   st |-> r.st, ret |-> ret, post |-> r.o]

\* no call has just ended
Idle ==
  [op |-> "none", pre |-> TclNewObj, psh |-> FALSE, a |-> NoArgs, ok |-> TRUE,
   st |-> "ok", ret |-> NoRet, post |-> TclNewObj]

\* the next call can be made
Ready == fatal = "none" /\ call.op = "none" /\ ops < MaxOps

\* v is Tcl_NewStringObj(b, Len(b))
FromBytes(b) ==
  /\ v = Tcl_NewStringObj(b)
  /\ origin = [kind |-> "bytes", data |-> b, explicit |-> TRUE]

\* v is Tcl_NewUnicodeObj(u, numChars): the length is given, or it is -1 and
\* u is followed by a terminating 0
FromUnicode(u, explicit) ==
  /\ v = Tcl_NewUnicodeObj(u, IF explicit THEN Len(u) ELSE -1)
  /\ origin = [kind |-> "unicode", data |-> u, explicit |-> explicit]

\* a value constructed from a short sequence, to be operated on
Init ==
  /\ \/ \E b \in AppBytes : FromBytes(b)
     \/ \E u \in AppUnis : FromUnicode(u, TRUE)
  /\ fatal = "none"
  /\ call = Idle
  /\ ops = 0

\* the call ended as r: a mutating operation
Mutated(op, sh, a, ok, r, ret) ==
  /\ ops' = ops + 1
  /\ v' = r.o
  /\ fatal' = IF r.st = "ok" THEN "none" ELSE r.st
  /\ call' = Call(op, sh, a, ok, r, ret)
  /\ origin' = NoOrigin

\* the call ended as r: an operation that only reads the value
Read(op, a, r, ret) ==
  /\ ops' = ops + 1
  /\ v' = r.o
  /\ fatal' = IF r.st = "ok" THEN "none" ELSE r.st
  /\ call' = Call(op, FALSE, a, TRUE, r, ret)
  /\ UNCHANGED origin

\* the call is not made: the result would be longer than MaxVal
Skip == Res(TclNewObj, "skip", 0)

\* allocation attempts are told apart only where the outcome depends on them
Canon(ok, rOk, rFail) == ok \/ rOk # rFail

SetString ==
  /\ Ready
  /\ \E b \in AppBytes, sh \in BOOLEAN :
       Mutated("Tcl_SetStringObj", sh, [NoArgs EXCEPT !.b = b], TRUE,
               Tcl_SetStringObj(v, b, sh), NoRet)

SetUnicode ==
  /\ Ready
  /\ \E u \in AppUnis, sh \in BOOLEAN :
       Mutated("Tcl_SetUnicodeObj", sh, [NoArgs EXCEPT !.u = u], TRUE,
               Tcl_SetUnicodeObj(v, u, Len(u), sh), NoRet)

SetLength ==
  /\ Ready
  /\ \E n \in -1..MaxArg, g \in Garbage, sh \in BOOLEAN :
       Mutated("Tcl_SetObjLength", sh, [NoArgs EXCEPT !.n = n], TRUE,
               Tcl_SetObjLength(v, n, sh, TRUE, g), NoRet)

AttemptSetLength ==
  /\ Ready
  /\ \E n \in -1..MaxArg, g \in Garbage, ok \in BOOLEAN, sh \in BOOLEAN :
     \E r \in {Tcl_AttemptSetObjLength(v, n, sh, ok, g)} :
           /\ Canon(ok, r, Tcl_AttemptSetObjLength(v, n, sh, TRUE, g))
           /\ Mutated("Tcl_AttemptSetObjLength", sh, [NoArgs EXCEPT !.n = n],
                      ok, r, [NoRet EXCEPT !.n = r.ret])

AppendBytes ==
  /\ Ready
  /\ \E b \in AppBytes, g \in Garbage, ok \in BOOLEAN, sh \in BOOLEAN :
     \E r \in {IF Size(v) + Len(b) <= MaxVal
                 THEN Tcl_AppendToObj(v, b, sh, ok, g) ELSE Skip} :
           /\ r.st # "skip"
           /\ Canon(ok, r, Tcl_AppendToObj(v, b, sh, TRUE, g))
           /\ Mutated("Tcl_AppendToObj", sh, [NoArgs EXCEPT !.b = b], ok, r,
                      NoRet)

\* the ellipsis "..." Tcl_AppendLimitedToObj uses when it is given NULL
DefaultEllipsis == <<46, 46, 46>>

AppendLimited ==
  /\ Ready
  /\ \E b \in AppBytes, limit \in 0..MaxArg, ell \in {DefaultEllipsis, <<46>>},
        g \in Garbage, ok \in BOOLEAN, sh \in BOOLEAN :
     \E r \in {IF Size(v) + Len(b) <= MaxVal
                 THEN Tcl_AppendLimitedToObj(v, b, limit, ell, sh, ok, g)
                 ELSE Skip} :
           /\ r.st # "skip"
           /\ Canon(ok, r, Tcl_AppendLimitedToObj(v, b, limit, ell, sh, TRUE, g))
           /\ Mutated("Tcl_AppendLimitedToObj", sh,
                      [NoArgs EXCEPT !.b = b, !.m = limit, !.ell = ell], ok, r,
                      NoRet)

AppendUnicode ==
  /\ Ready
  /\ \E u \in AppUnis, g \in Garbage, ok \in BOOLEAN, sh \in BOOLEAN :
     \E r \in {IF Size(v) + Len(u) <= MaxVal
                 THEN Tcl_AppendUnicodeToObj(v, u, sh, ok, g) ELSE Skip} :
           /\ r.st # "skip"
           /\ Canon(ok, r, Tcl_AppendUnicodeToObj(v, u, sh, TRUE, g))
           /\ Mutated("Tcl_AppendUnicodeToObj", sh, [NoArgs EXCEPT !.u = u],
                      ok, r, NoRet)

AppendObj ==
  /\ Ready
  /\ \E ap \in ArgObjs, g \in Garbage, ok \in BOOLEAN, sh \in BOOLEAN :
     \E r \in {IF Size(v) + Size(ap) <= MaxVal
                 THEN Tcl_AppendObjToObj(v, ap, sh, ok, g) ELSE Skip} :
           /\ r.st # "skip"
           /\ Canon(ok, r, Tcl_AppendObjToObj(v, ap, sh, TRUE, g))
           /\ Mutated("Tcl_AppendObjToObj", sh, [NoArgs EXCEPT !.ap = ap],
                      ok, r, [NoRet EXCEPT !.obj = r.ret])

AppendStrings ==
  /\ Ready
  /\ \E s1 \in AppBytes \ {<<>>}, g \in Garbage, ok \in BOOLEAN, sh \in BOOLEAN :
     \E strs \in {<<s1>>, <<<<>>, s1>>} :
     \E r \in {IF Size(v) + Len(s1) <= MaxVal
                 THEN Tcl_AppendStringsToObjVA(v, strs, sh, ok, g) ELSE Skip} :
           /\ r.st # "skip"
           /\ Canon(ok, r, Tcl_AppendStringsToObjVA(v, strs, sh, TRUE, g))
           /\ Mutated("Tcl_AppendStringsToObj", sh,
                      [NoArgs EXCEPT !.strs = strs], ok, r, NoRet)

\* a format string and the values to format
FormatCall(f, objv) == [f |-> f, objv |-> objv]

\* the values formatted: the string "a", the code unit U+0100, the number 2
FormatArg ==
  [a |-> Tcl_NewStringObj(<<Ch.a>>),
   u |-> Tcl_NewUnicodeObj(<<256>>, 1),
   n |-> Tcl_NewStringObj(<<Ch.zero + 2>>)]

\* the calls of Tcl_AppendFormatToObj: a literal and then the end of the
\* string in a specifier, without and with a value left to format; the
\* conversion s alone, after a literal, of code units; the escape; a bad
\* specifier after a conversion; a position, alone and mixed with sequential
\* specifiers; flags and a width; a precision; a width taken from objv; the
\* conversion c; the length modifiers; a value that is not a number
FormatCalls ==
  {FormatCall(<<Ch.a, Ch.percent>>, <<>>),
   FormatCall(<<Ch.a, Ch.percent>>, <<FormatArg.a>>),
   FormatCall(<<Ch.percent, Ch.s>>, <<FormatArg.a>>),
   FormatCall(<<Ch.a, Ch.percent, Ch.s>>, <<FormatArg.u>>),
   FormatCall(<<Ch.percent, Ch.percent>>, <<>>),
   FormatCall(<<Ch.percent, Ch.s, Ch.percent, Ch.q>>,
              <<FormatArg.a, FormatArg.a>>),
   FormatCall(<<Ch.percent, Ch.zero + 1, Ch.dollar, Ch.s>>, <<FormatArg.a>>),
   FormatCall(<<Ch.percent, Ch.s, Ch.percent, Ch.zero + 1, Ch.dollar, Ch.s>>,
              <<FormatArg.u, FormatArg.a>>),
   FormatCall(<<Ch.percent, Ch.minus, Ch.zero + 2, Ch.s>>, <<FormatArg.a>>),
   FormatCall(<<Ch.percent, Ch.zero, Ch.zero + 2, Ch.d>>, <<FormatArg.n>>),
   FormatCall(<<Ch.percent, Ch.dot, Ch.zero, Ch.s, Ch.a>>, <<FormatArg.a>>),
   FormatCall(<<Ch.percent, Ch.star, Ch.d>>, <<FormatArg.n, FormatArg.n>>),
   FormatCall(<<Ch.percent, Ch.c>>, <<FormatArg.n>>),
   FormatCall(<<Ch.percent, Ch.hash, Ch.l, Ch.x>>, <<FormatArg.n>>),
   FormatCall(<<Ch.percent, Ch.l, Ch.l, Ch.u>>, <<FormatArg.n>>),
   FormatCall(<<Ch.percent, Ch.h, Ch.i>>, <<FormatArg.a>>)}

Format ==
  /\ Ready
  /\ \E fc \in FormatCalls, g \in Garbage, ok \in BOOLEAN, sh \in BOOLEAN,
        wideIsLong \in BOOLEAN :
     \E r \in {Tcl_AppendFormatToObj(v, fc.f, fc.objv, sh, ok, g,
                                     wideIsLong)} :
           /\ Size(r.o) <= MaxVal
           /\ Canon(ok, r, Tcl_AppendFormatToObj(v, fc.f, fc.objv, sh, TRUE, g,
                                                 wideIsLong))
           /\ Mutated("Tcl_AppendFormatToObj", sh,
                      [NoArgs EXCEPT !.b = fc.f, !.objv = fc.objv], ok, r,
                      [NoRet EXCEPT !.code = r.ret])

\* the copy made by Tcl_DuplicateObj takes the place of v
Duplicate ==
  /\ Ready
  /\ Mutated("Tcl_DuplicateObj", FALSE, NoArgs, TRUE,
             Res(Tcl_DuplicateObj(v), "ok", 0), NoRet)

GetLength ==
  /\ Ready
  /\ \E r \in {Tcl_GetCharLength(v)} :
         Read("Tcl_GetCharLength", NoArgs, r, [NoRet EXCEPT !.n = r.ret])

GetChar ==
  /\ Ready
  /\ \E c \in {Tcl_GetCharLength(v)} :
       /\ c.st = "ok"
       /\ \E index \in 0..(c.ret - 1), g \in Garbage, signed \in BOOLEAN :
          \E r \in {Tcl_GetUniChar(v, index, signed, g)} :
           Read("Tcl_GetUniChar",
                [NoArgs EXCEPT !.n = index, !.signed = signed], r,
                [NoRet EXCEPT !.n = r.ret])

GetUnicode ==
  /\ Ready
  /\ \E r \in {Tcl_GetUnicodeFromObj(v)} :
         Read("Tcl_GetUnicodeFromObj", NoArgs, r,
              IF r.st = "ok" THEN [NoRet EXCEPT !.s = r.ret[1], !.n = r.ret[2]]
              ELSE NoRet)

GetRange ==
  /\ Ready
  /\ \E c \in {Tcl_GetCharLength(v)} :
       /\ c.st = "ok"
       /\ \E first \in 0..(c.ret - 1), g \in Garbage :
          \E lst \in first..(c.ret - 1) :
          \E r \in {Tcl_GetRange(v, first, lst, g)} :
           Read("Tcl_GetRange", [NoArgs EXCEPT !.n = first, !.m = lst], r,
                IF r.st = "ok" THEN [NoRet EXCEPT !.obj = r.ret] ELSE NoRet)

GetString ==
  /\ Ready
  /\ \E g \in Garbage :
     \E r \in {TclGetString(v, g)} :
           Read("Tcl_GetString", NoArgs, r, [NoRet EXCEPT !.s = r.ret])

Reverse ==
  /\ Ready
  /\ \E g \in Garbage, sh \in BOOLEAN :
     \E r \in {TclStringObjReverse(v, sh, g)} :
           /\ v' = r.o
           /\ fatal' = IF r.st = "ok" THEN "none" ELSE r.st
           /\ call' = Call("TclStringObjReverse", sh, NoArgs, TRUE, r,
                           [NoRet EXCEPT !.obj = r.ret.obj,
                                         !.same = r.ret.same])
           /\ origin' = IF r.ret.same /\ r.st = "ok" /\ r.o # v
                          THEN NoOrigin ELSE origin
  /\ ops' = ops + 1

\* the caller goes on after the call that has just ended
Continue ==
  /\ fatal = "none"
  /\ call.op # "none"
  /\ call' = Idle
  /\ UNCHANGED <<v, fatal, origin, ops>>

Next ==
  \/ SetString \/ SetUnicode \/ SetLength \/ AttemptSetLength
  \/ AppendBytes \/ AppendLimited \/ AppendUnicode \/ AppendObj
  \/ AppendStrings \/ Format \/ Duplicate
  \/ GetLength \/ GetChar \/ GetUnicode \/ GetRange \/ GetString
  \/ Reverse \/ Continue

Spec == Init /\ [][Next]_vars

\* a value constructed from any sequence within MaxArg, then only read
InitRead ==
  /\ \/ \E b \in ByteArgs : FromBytes(b)
     \/ \E u \in UniArgs, explicit \in BOOLEAN : FromUnicode(u, explicit)
  /\ fatal = "none"
  /\ call = Idle
  /\ ops = 0

NextRead ==
  GetLength \/ GetChar \/ GetUnicode \/ GetRange \/ GetString \/ Continue

SpecRead == InitRead /\ [][NextRead]_vars

----------------------------------------------------------------------------
(* Properties of the value and of the calls.                               *)

\* the character sequence of a value: its code units when it has a unicode
\* buffer, the decoding of its bytes otherwise
Chars(o) ==
  IF o.hasUnicode # 0 THEN o.unicode
  ELSE IF o.bk = "null" THEN <<>>
  ELSE Decode(o.bytes)

\* C8: Tcl_GetCharLength of a value constructed from the bytes b returns
\* Tcl_NumUtfChars(b), and when that is the number of bytes of b the call
\* leaves the value without a unicode buffer
C8_CharLengthIsNumUtfChars ==
  (call.op = "Tcl_GetCharLength" /\ origin.kind = "bytes") =>
     /\ call.st = "ok"
     /\ call.ret.n = Tcl_NumUtfChars(origin.data)
     /\ (call.ret.n = Len(origin.data) /\ call.pre.hasUnicode = 0)
          => v.hasUnicode = 0

\* the count was computed from a prefix below 0xC0 and a decoded suffix
C8_Witness ==
  /\ call.op = "Tcl_GetCharLength"
  /\ call.pre.numChars = -1
  /\ origin = [kind |-> "bytes", data |-> <<97, 196, 128>>, explicit |-> TRUE]
  /\ call.ret.n = 2
  /\ v.hasUnicode = 1

\* C9: the bytes of a value constructed from the bytes b are b, with the
\* length of b, in every state reached by reading it (the character count,
\* a character, the code units, a range, the bytes), and reading the bytes
\* returns b
C9_BytesReadBack ==
  origin.kind = "bytes" =>
     /\ fatal = "none"
     /\ v.bk # "null"
     /\ v.bytes = origin.data
     /\ v.length = Len(origin.data)
     /\ call.op = "Tcl_GetString" => call.ret.s = origin.data

\* the bytes are read back after the code units were materialized
C9_Witness ==
  /\ call.op = "Tcl_GetString"
  /\ origin = [kind |-> "bytes", data |-> <<128, 196, 128>>, explicit |-> TRUE]
  /\ call.pre.hasUnicode = 1
  /\ call.ret.s = <<128, 196, 128>>

\* the code units a value constructed from u holds: all of u when the
\* length is given, u up to its terminating 0 otherwise
GivenUnits == IF origin.explicit THEN origin.data ELSE UntilNul(origin.data)

\* C10: Tcl_GetUnicodeFromObj of a value constructed from the code units u
\* returns u and the length of u, whether or not the bytes of the value
\* were generated in between
C10_UnicodeReadBack ==
  (call.op = "Tcl_GetUnicodeFromObj" /\ origin.kind = "unicode") =>
     /\ call.st = "ok"
     /\ call.ret.s = GivenUnits
     /\ call.ret.n = Len(GivenUnits)

\* the code units, with a 0 among them, are read back after the bytes
\* were generated
C10_Witness ==
  /\ call.op = "Tcl_GetUnicodeFromObj"
  /\ origin = [kind |-> "unicode", data |-> <<256, 0, 97>>, explicit |-> TRUE]
  /\ call.pre.bk = "heap"
  /\ call.ret.s = <<256, 0, 97>>
  /\ call.ret.n = 3

\* C1: whenever the cached count numChars is not -1 it is the number of
\* characters of the value, in each representation the value holds
C1_CachedCountIsCharCount ==
  (fatal = "none" /\ v.typ = "string" /\ v.numChars # -1) =>
     /\ v.bk # "null" => v.numChars = Tcl_NumUtfChars(v.bytes)
     /\ v.hasUnicode # 0 => v.numChars = Len(v.unicode)

\* C2: a value with a cached count and no unicode buffer has one byte per
\* character: its cached count is its byte length
C2_CountWithoutUnicodeIsByteLength ==
  (fatal = "none" /\ v.typ = "string" /\ v.numChars >= 0
     /\ v.hasUnicode = 0 /\ v.bk # "null") =>
     v.numChars = v.length

\* C3: a value with a unicode buffer has a cached count, holds that many
\* code units within its capacity, and they are the characters of its bytes
C3_UnicodeIsTheCharacters ==
  (fatal = "none" /\ v.typ = "string" /\ v.hasUnicode # 0) =>
     /\ v.numChars >= 0
     /\ Len(v.unicode) = v.numChars
     /\ STRING_UALLOC(v.numChars) <= v.uallocated
     /\ v.bk # "null" => v.unicode = Decode(v.bytes)

\* the entry points that change their destination
MutatingOps ==
  {"Tcl_SetStringObj", "Tcl_SetObjLength", "Tcl_AttemptSetObjLength",
   "Tcl_SetUnicodeObj", "Tcl_AppendToObj", "Tcl_AppendLimitedToObj",
   "Tcl_AppendUnicodeToObj", "Tcl_AppendObjToObj", "Tcl_AppendStringsToObj",
   "Tcl_AppendFormatToObj"}

\* C4: no mutating call on a shared destination returns normally having
\* changed the bytes, the code units, the length or the cached count
C4_SharedNeverMutated ==
  (call.op \in MutatingOps /\ call.psh /\ call.st = "ok") =>
     /\ v.bytes = call.pre.bytes
     /\ v.unicode = call.pre.unicode
     /\ v.length = call.pre.length
     /\ v.numChars = call.pre.numChars

\* C6: TclStringObjReverse of a shared value of more than one character
\* returns another value, which holds the characters back to front, and
\* leaves the characters of the shared value as they were
C6_ReverseSharedIsFresh ==
  (call.op = "TclStringObjReverse" /\ call.psh /\ call.st = "ok"
     /\ Len(Chars(call.pre)) > 1) =>
     /\ ~call.ret.same
     /\ Chars(call.ret.obj) = Rev(Chars(call.pre))
     /\ Chars(v) = Chars(call.pre)

\* the character Tcl_GetUniChar returns at index i of o; an indeterminate
\* one is read as x
CharAt(o, i, signed, x) ==
  Bind(Tcl_GetUniChar(o, i, signed, x), LAMBDA r :
    IF r.st = "ok" THEN r.ret ELSE x)

\* C7: after Tcl_AppendObjToObj(a, b) on an unshared a, the characters of
\* the result below the character length of a are those of a and the ones
\* from there on are those of b
C7_AppendObjConcatenates ==
  (call.op = "Tcl_AppendObjToObj" /\ ~call.psh /\ call.st = "ok") =>
     \A la \in {Tcl_GetCharLength(call.pre).ret},
        lb \in {Tcl_GetCharLength(call.a.ap).ret}, signed \in BOOLEAN :
           /\ \A i \in 0..(lb - 1) :
                CharAt(v, la + i, signed, -1) = CharAt(call.a.ap, i, signed, -2)
           /\ \A j \in 0..(la - 1) :
                CharAt(v, j, signed, -1) = CharAt(call.pre, j, signed, -2)

\* C5: whenever Tcl_AppendFormatToObj returns TCL_ERROR the characters of
\* the destination are those it had before the call
C5_FormatErrorRestores ==
  (call.op = "Tcl_AppendFormatToObj" /\ call.st = "ok"
     /\ call.ret.code = "TCL_ERROR") =>
     Chars(v) = Chars(call.pre)

\* C11: TclStringObjReverse of the value a TclStringObjReverse returned has
\* the characters of the value the first call was made on, and a value of
\* at most one character is returned as it is
C11_ReverseTwiceIsIdentity ==
  (call.op = "TclStringObjReverse" /\ call.st = "ok") =>
     /\ \A sh \in BOOLEAN, g \in Garbage :
        \A r \in {TclStringObjReverse(call.ret.obj, sh, g)} :
           /\ r.st = "ok"
           /\ Chars(r.ret.obj) = Chars(call.pre)
     /\ Len(Chars(call.pre)) <= 1 =>
           /\ call.ret.same
           /\ Chars(call.ret.obj) = Chars(call.pre)

\* the length of the byte form of a value, none being generated yet counting
\* as no bytes
ByteLength(o) == IF o.bk = "null" THEN 0 ELSE o.length

\* C12: after Tcl_AppendToObj(v, bytes, n) returns, the representation the
\* bytes were appended to has a capacity not below the one before the call
\* and a length grown by what was appended: the n bytes for the byte form,
\* their characters for the unicode buffer
C12_AppendGrowsByCount ==
  (call.op = "Tcl_AppendToObj" /\ call.st = "ok") =>
     IF v.hasUnicode # 0
       THEN /\ v.uallocated >= call.pre.uallocated
            /\ v.numChars = call.pre.numChars + Tcl_NumUtfChars(call.a.b)
            /\ Len(v.unicode) = v.numChars
       ELSE /\ v.allocated >= call.pre.allocated
            /\ ByteLength(v) = ByteLength(call.pre) + Len(call.a.b)
            /\ v.bk # "null" => Len(v.bytes) = v.length

\* C13: in every state a value with the String representation has a byte
\* capacity not below the length of its bytes, when it has bytes, and a
\* unicode capacity not below STRING_UALLOC of its character count, when its
\* unicode buffer is in use
C13_CapacityCoversLength ==
  (fatal = "none" /\ v.typ = "string") =>
     /\ v.bk = "heap" => v.allocated >= v.length
     /\ v.hasUnicode # 0 => v.uallocated >= STRING_UALLOC(v.numChars)

\* bytes were appended after the doubling attempt failed, and the capacity
\* is the one of the fallback
C13_Witness ==
  /\ call.op = "Tcl_AppendToObj"
  /\ call.st = "ok"
  /\ ~call.ok
  /\ v.typ = "string"
  /\ v.bk = "heap"
  /\ v.length = 3
  /\ v.allocated > call.pre.allocated
  /\ v.allocated = ModestGrowth(v.length, Len(call.a.b))

----------------------------------------------------------------------------
(* Tcl_AppendLimitedToObj on sources of up to MaxCtor bytes.               *)

\* the ellipsis markers: none, ".", the default
Ellipses == {<<>>, <<46>>, DefaultEllipsis}

\* Tcl_AppendLimitedToObj of any source within MaxCtor, well formed or not,
\* with any limit up to its length
AppendLimitedAny ==
  /\ Ready
  /\ \E b \in ByteArgs, limit \in 0..MaxCtor, ell \in Ellipses,
        g \in Garbage, ok \in BOOLEAN, sh \in BOOLEAN :
     \E r \in {IF Size(v) + Len(b) <= MaxVal
                 THEN Tcl_AppendLimitedToObj(v, b, limit, ell, sh, ok, g)
                 ELSE Skip} :
           /\ r.st # "skip"
           /\ Canon(ok, r, Tcl_AppendLimitedToObj(v, b, limit, ell, sh, TRUE, g))
           /\ Mutated("Tcl_AppendLimitedToObj", sh,
                      [NoArgs EXCEPT !.b = b, !.m = limit, !.ell = ell], ok, r,
                      NoRet)

NextLimited ==
  AppendLimitedAny \/ GetLength \/ GetUnicode \/ GetString \/ Continue

\* a value constructed from a short sequence, read and appended to with a
\* limit
SpecLimited == Init /\ [][NextLimited]_vars

RECURSIVE BoundariesFrom(_, _)
BoundariesFrom(s, i) ==
  IF i >= Len(s) THEN {Len(s)}
  ELSE {i} \cup BoundariesFrom(s, i + Tcl_UtfToUniChar(s, i)[2])

\* the offsets of the byte sequence s at which a character starts or s ends
Boundaries(s) == BoundariesFrom(s, 0)

\* the call that has just ended appended the bytes head and then the bytes
\* tail: to the bytes of the value from its length on, or their characters
\* to its unicode buffer
AppendedAre(head, tail) ==
  IF call.pre.hasUnicode # 0
    THEN /\ v.hasUnicode # 0
         /\ v.unicode = call.pre.unicode \o Decode(head) \o Decode(tail)
    ELSE /\ v.hasUnicode = 0
         /\ v.length = call.pre.length + Len(head) + Len(tail)
         /\ Len(head) + Len(tail) > 0 =>
              /\ v.bk = "heap"
              /\ Drop(v.bytes, call.pre.length) = head \o tail

\* C14: when the source is longer than the limit Tcl_AppendLimitedToObj
\* appends a prefix of the source that ends where a character of the source
\* starts, and the ellipsis right after it; otherwise it appends the whole
\* source and no ellipsis
C14_LimitedCutsAtBoundary ==
  (call.op = "Tcl_AppendLimitedToObj" /\ call.st = "ok") =>
     IF Len(call.a.b) <= call.a.m
       THEN AppendedAre(call.a.b, <<>>)
       ELSE \E k \in Boundaries(call.a.b) :
              /\ k < Len(call.a.b)
              /\ AppendedAre(Take(call.a.b, k), call.a.ell)

\* the source was cut inside its limit before a two-byte character, and the
\* ellipsis follows the character before it
C14_Witness ==
  /\ call.op = "Tcl_AppendLimitedToObj"
  /\ call.st = "ok"
  /\ call.a.b = <<97, 196, 128>>
  /\ call.a.m = 3 - 1
  /\ call.a.ell = <<>>
  /\ call.pre.hasUnicode = 0
  /\ v.bytes = <<97>>

\* the bytes the call that has just ended added to the value: the growth
\* of its byte length, or of its unicode buffer (a character is one byte
\* at least)
AppendedCount ==
  IF call.pre.hasUnicode # 0
    THEN Len(v.unicode) - Len(call.pre.unicode)
    ELSE v.length - call.pre.length

\* C15: Tcl_AppendLimitedToObj appends at most limit bytes, the ellipsis
\* counted
C15_LimitedAppendsAtMostLimit ==
  (call.op = "Tcl_AppendLimitedToObj" /\ call.st = "ok") =>
     AppendedCount <= call.a.m

----------------------------------------------------------------------------
(* The growth arithmetic of the appends on values near the maximum length. *)
(* A value that long is held by its sizes alone: the record of a value     *)
(* with bytes and unicode left empty.  size_t is the 64-bit unsigned       *)
(* integer of an LP64 build, kept as four digits of base 2^16, lowest      *)
(* first.                                                                  *)

SizeBase == 65536

\* STRING_SIZE(0): sizeof(String) - sizeof(Tcl_UniChar) on an LP64 build
STRING_SIZE0 == 22

\* the conversion of the int n to size_t, which extends the sign
SizeT(n) ==
  IF n >= 0 THEN <<n % SizeBase, n \div SizeBase, 0, 0>>
  ELSE Bind((n + INT_MAX) + 1, LAMBDA m :
         <<m % SizeBase, (SizeBase \div 2) + (m \div SizeBase),
           SizeBase - 1, SizeBase - 1>>)

\* x + y in size_t
SizeAdd(x, y) ==
  Bind(x[1] + y[1], LAMBDA s1 :
  Bind(x[2] + y[2] + (s1 \div SizeBase), LAMBDA s2 :
  Bind(x[3] + y[3] + (s2 \div SizeBase), LAMBDA s3 :
  Bind(x[4] + y[4] + (s3 \div SizeBase), LAMBDA s4 :
    <<s1 % SizeBase, s2 % SizeBase, s3 % SizeBase, s4 % SizeBase>>))))

\* STRING_UALLOC(x) in size_t
SizeUalloc(x) == Bind(x, LAMBDA y : SizeAdd(y, y))

\* the size_t x is above the int n >= 0
SizeAbove(x, n) ==
  \/ x[3] # 0 \/ x[4] # 0 \/ x[2] >= SizeBase \div 2
  \/ x[2] * SizeBase + x[1] > n

\* the conversion of the size_t x to int, which keeps its low 32 bits
IntOfSize(x) ==
  IF x[2] < SizeBase \div 2 THEN x[2] * SizeBase + x[1]
  ELSE (((x[2] - SizeBase \div 2) * SizeBase + x[1]) - INT_MAX) - 1

\* the int a + b for ints a, b >= 0 in a build that wraps around at 2^31
WrapAdd(a, b) ==
  IF b > INT_MAX - a THEN ((a - INT_MAX) - 1) + ((b - INT_MAX) - 1)
  ELSE a + b

\* AppendUtfToUtfRep(objPtr, bytes, numBytes), the sizes alone
AppendUtfToUtfRepSizes(o, numBytes, attemptOk) ==
  IF numBytes = 0 THEN Res(o, "ok", 0)
  ELSE IF numBytes > INT_MAX - o.length THEN Res(o, "panic", 0)
  ELSE
    Bind(numBytes + o.length, LAMBDA newLength :
      Res([o EXCEPT
             !.bk = "heap",
             !.allocated =
               IF newLength <= o.allocated THEN o.allocated
               ELSE IF TwiceInt(newLength) >= 0 /\ attemptOk
                 THEN TwiceInt(newLength)
               ELSE Max(o.allocated, ModestGrowth(newLength, numBytes)),
             !.numChars = -1,
             !.hasUnicode = 0,
             !.length = newLength], "ok", 0))

\* ExtendUnicodeRepWithString(objPtr, bytes, numBytes, numAppendChars) as
\* AppendUtfToUnicodeRep calls it and goes on, the sizes alone
AppendUtfToUnicodeRepSizes(o, numAppendChars) ==
  IF numAppendChars = 0 THEN Res(o, "ok", 0)
  ELSE
    Bind(WrapAdd(IF o.hasUnicode # 0 THEN o.numChars ELSE 0, numAppendChars),
         LAMBDA needed :
      IF needed < 0 THEN Res(o, "panic", 0)
      ELSE
        Bind(SizeUalloc(SizeT(needed)), LAMBDA uallocated :
        Bind(IF ~SizeAbove(uallocated, o.uallocated) THEN SizeT(o.uallocated)
             ELSE IF o.uallocated > 0
               THEN IF ~SizeAbove(uallocated, INT_MAX)
                      THEN SizeUalloc(uallocated)
                      ELSE SizeUalloc(SizeT(INT_MAX))
             ELSE uallocated, LAMBDA grown :
          IF SizeAbove(uallocated, o.uallocated)
               /\ SizeAbove(grown, INT_MAX - STRING_SIZE0)
            THEN Res(o, "panic", 0)
          ELSE Res([o EXCEPT !.uallocated = IntOfSize(grown),
                             !.hasUnicode = 1,
                             !.numChars = needed,
                             !.bk = "null",
                             !.allocated = 0], "ok", 0))))

\* AppendUnicodeToUnicodeRep(objPtr, unicode, appendNumChars), the sizes
\* alone.  The int sum that overflows is undefined: it is formed in 64 bits
\* (wide) or wraps around at 2^31 before it is converted to size_t.  A copy
\* past the end of the buffer is undefined: the process dies of it or goes
\* on (smash)
AppendUnicodeToUnicodeRepSizes(o, appendNumChars, wide, attemptOk, smash) ==
  IF appendNumChars = 0 THEN Res(o, "ok", 0)
  ELSE
    Bind(IF wide THEN SizeAdd(SizeT(o.numChars), SizeT(appendNumChars))
         ELSE SizeT(WrapAdd(o.numChars, appendNumChars)), LAMBDA numChars :
    Bind(SizeUalloc(SizeAdd(numChars, numChars)), LAMBDA doubled :
    Bind(SizeAdd(SizeUalloc(SizeAdd(numChars, SizeT(appendNumChars))),
                 SizeT(TCL_GROWTH_MIN_ALLOC)), LAMBDA modest :
    Bind(SizeUalloc(numChars) = SizeT(o.uallocated)
           \/ SizeAbove(SizeUalloc(numChars), o.uallocated), LAMBDA grows :
    Bind(attemptOk /\ ~SizeAbove(doubled, INT_MAX - STRING_SIZE0),
         LAMBDA attempted :
      IF grows /\ ~attempted /\ SizeAbove(modest, INT_MAX - STRING_SIZE0)
        THEN Res(o, "panic", 0)
      ELSE
        Bind(IF ~grows THEN o.uallocated
             ELSE IF attempted THEN IntOfSize(doubled)
             ELSE IntOfSize(modest), LAMBDA uallocated :
          IF SizeAbove(SizeUalloc(numChars), uallocated) /\ smash
            THEN Res(o, "crash", 0)
          ELSE Res([o EXCEPT !.uallocated = uallocated,
                             !.numChars = IntOfSize(numChars),
                             !.bk = "null",
                             !.allocated = 0], "ok", 0)))))))

\* ExtendStringRepWithUnicode(objPtr, unicode, numChars) as
\* AppendUnicodeToUtfRep calls it and goes on, the sizes alone; every code
\* unit takes per bytes
AppendUnicodeToUtfRepSizes(o, numChars, per) ==
  IF numChars = 0 THEN Res(o, "ok", 0)
  ELSE
    Bind(IF o.bk = "null" THEN 0 ELSE o.length, LAMBDA length :
      \* the loop adds up to per bytes at a time and stops at the first
      \* sum that has wrapped around
      IF numChars > (INT_MAX - length) \div per THEN Res(o, "panic", 0)
      ELSE
        Bind(length + numChars * per, LAMBDA size :
          Res([o EXCEPT !.bk = "heap",
                        !.allocated = Max(o.allocated, size),
                        !.length = size,
                        !.numChars = IF o.numChars # -1
                                       THEN o.numChars + numChars
                                       ELSE o.numChars,
                        !.hasUnicode = 0], "ok", 0)))

\* a value of n bytes that has the String representation, and a value of n
\* code units without bytes
LongBytes(n) == Obj("string", "heap", <<>>, n, -1, n, 0, 0, <<>>)

LongUnicode(n) == Obj("string", "null", <<>>, 0, n, 0, STRING_UALLOC(n), 1, <<>>)

\* the numbers of bytes or code units appended to a long value
SizeVals == {1, 2, INT_MAX \div 2, INT_MAX - 1, INT_MAX}

InitGrowth ==
  /\ v \in {LongBytes(n) : n \in {0, 1, INT_MAX \div 2, INT_MAX - 1}}
             \cup {LongUnicode(n) : n \in {1, 2, INT_MAX \div 4}}
  /\ fatal = "none"
  /\ call = Idle
  /\ origin = NoOrigin
  /\ ops = 0

\* the characters of n bytes that are characters of per bytes each
CharsOfBytes(n, per) == Max(1, n \div per)

\* no append has written past the buffer of the value: what a process does
\* after that is not followed
Intact == v.numChars >= -1

\* Tcl_AppendToObj(objPtr, bytes, n) of characters of per bytes each
GrowBytes ==
  /\ Ready
  /\ Intact
  /\ \E n \in SizeVals, per \in 1..TCL_UTF_MAX, ok \in BOOLEAN :
     \E r \in {IF v.hasUnicode # 0
                 THEN AppendUtfToUnicodeRepSizes(v, CharsOfBytes(n, per))
                 ELSE AppendUtfToUtfRepSizes(v, n, ok)} :
        Mutated("Tcl_AppendToObj", FALSE, [NoArgs EXCEPT !.n = n, !.m = per],
                ok, r, NoRet)

\* Tcl_AppendUnicodeToObj(objPtr, unicode, n) of code units that take per
\* bytes each
GrowUnicode ==
  /\ Ready
  /\ Intact
  /\ \E n \in SizeVals, per \in 1..TCL_UTF_MAX, ok \in BOOLEAN,
        wide \in BOOLEAN, smash \in BOOLEAN :
     \E r \in {IF v.hasUnicode # 0
                 THEN AppendUnicodeToUnicodeRepSizes(v, n, wide, ok, smash)
                 ELSE AppendUnicodeToUtfRepSizes(v, n, per)} :
        Mutated("Tcl_AppendUnicodeToObj", FALSE,
                [NoArgs EXCEPT !.n = n, !.m = per], ok, r, NoRet)

NextGrowth == GrowBytes \/ GrowUnicode \/ Continue

\* a long value, appended to
SpecGrowth == InitGrowth /\ [][NextGrowth]_vars

\* the call that has just ended is an append that takes the length of the
\* value, in bytes or in code units as it is held, beyond INT_MAX
ExceedsMaximum ==
  \/ /\ call.op = "Tcl_AppendToObj"
     /\ IF call.pre.hasUnicode # 0
          THEN call.pre.numChars > INT_MAX - CharsOfBytes(call.a.n, call.a.m)
          ELSE call.pre.length > INT_MAX - call.a.n
  \/ /\ call.op = "Tcl_AppendUnicodeToObj"
     /\ IF call.pre.hasUnicode # 0
          THEN call.pre.numChars > INT_MAX - call.a.n
          ELSE call.a.n > (INT_MAX - call.pre.length) \div call.a.m

\* C16: an append that takes the length of a value beyond INT_MAX ends in
\* the panic, and an append that returns leaves lengths and capacities that
\* are not negative, the capacities covering the lengths
C16_OverflowIsFatal ==
  /\ ExceedsMaximum => fatal = "panic"
  /\ (call.op \in {"Tcl_AppendToObj", "Tcl_AppendUnicodeToObj"}
        /\ call.st = "ok") =>
       /\ v.length >= 0
       /\ v.numChars >= -1
       /\ v.bk = "heap" => v.allocated >= v.length
       /\ v.hasUnicode # 0 =>
            /\ v.numChars <= INT_MAX \div SizeofUniChar
            /\ v.uallocated >= STRING_UALLOC(v.numChars)

\* the call that has just ended left the value as it was: its bytes and
\* their length, and for a value that had the String representation its
\* capacities, its cached count and its unicode buffer
Unmodified ==
  /\ v.bk = call.pre.bk
  /\ v.bytes = call.pre.bytes
  /\ v.length = call.pre.length
  /\ call.pre.typ = "string" =>
       /\ v.allocated = call.pre.allocated
       /\ v.uallocated = call.pre.uallocated
       /\ v.numChars = call.pre.numChars
       /\ v.hasUnicode = call.pre.hasUnicode
       /\ v.unicode = call.pre.unicode

C18_NegativeLengthIsFatal ==
  (call.op \in {"Tcl_SetObjLength", "Tcl_AttemptSetObjLength"}
     /\ call.a.n < 0) =>
     fatal = "panic"

\* C19: after Tcl_SetObjLength(v, n) returns, the bytes of v, generated
\* when it holds none, are n bytes, and when n is below the number of bytes
\* v had they are the first n of those
C19_SetLengthSetsByteLength ==
  (call.op = "Tcl_SetObjLength" /\ call.st = "ok" /\ ~call.psh) =>
     \A g \in Garbage :
     \A now \in {TclGetString(v, g)}, was \in {TclGetString(call.pre, g)} :
        /\ now.st = "ok"
        /\ Len(now.ret) = call.a.n
        /\ (was.st = "ok" /\ call.a.n < Len(was.ret)) =>
              now.ret = Take(was.ret, call.a.n)

\* C20: Tcl_AppendStringsToObj(v, s1, ..., sk) on an unshared value returns,
\* and Tcl_GetCharLength and Tcl_GetUniChar then report the characters v
\* had followed by those of s1 ... sk
C20_AppendStringsConcatenates ==
  (call.op = "Tcl_AppendStringsToObj" /\ ~call.psh) =>
     /\ call.st = "ok"
     /\ \A expected \in {Chars(call.pre) \o Decode(Flatten(call.a.strs))},
           signed \in BOOLEAN :
        \A c \in {Tcl_GetCharLength(v)} :
           /\ c.st = "ok"
           /\ c.ret = Len(expected)
           /\ \A i \in 0..(Len(expected) - 1) :
                CharAt(c.o, i, signed, -1) = expected[i + 1]

\* the entry points that append to their destination
AppendOps ==
  {"Tcl_AppendToObj", "Tcl_AppendLimitedToObj", "Tcl_AppendUnicodeToObj",
   "Tcl_AppendObjToObj", "Tcl_AppendStringsToObj", "Tcl_AppendFormatToObj"}

\* C21: after an append returns, a value that holds both bytes and a unicode
\* buffer holds the same characters in both: the code units are the decoding
\* of the bytes
C21_AppendKeepsOneFormLive ==
  (call.op \in AppendOps /\ call.st = "ok"
     /\ v.bk # "null" /\ v.hasUnicode # 0) =>
     v.unicode = Decode(v.bytes)

\* the capacities the growth algorithm gives a buffer that held current
\* units and is to take extra more: the doubled need when the attempt to
\* allocate it succeeds, the modest one otherwise
GrowthPolicy(current, extra, attemptOk) ==
  IF attemptOk THEN 2 * (current + extra)
  ELSE current + 2 * extra + TCL_GROWTH_MIN_ALLOC

\* C22: when Tcl_AppendToObj or Tcl_AppendUnicodeToObj has raised the
\* capacity of the form it appended to above the one the value had as a
\* string value, the new capacity is the one of the growth algorithm:
\* allocated in bytes for the byte form; uallocated for the unicode buffer,
\* the slack of the modest growth counted in bytes or in code units
C22_GrowthIsDoubleThenModest ==
  (call.op \in {"Tcl_AppendToObj", "Tcl_AppendUnicodeToObj"}
     /\ call.st = "ok") =>
     \A pre \in {SetStringFromAny(call.pre)} :
       IF v.hasUnicode # 0
         THEN v.uallocated > pre.uallocated =>
                \A current \in {IF pre.hasUnicode # 0 THEN pre.numChars ELSE 0} :
                \A extra \in {v.numChars - current} :
                   \/ v.uallocated
                        = STRING_UALLOC(GrowthPolicy(current, extra, call.ok))
                   \/ /\ ~call.ok
                      /\ v.uallocated = STRING_UALLOC(current + 2 * extra)
                                          + TCL_GROWTH_MIN_ALLOC
         ELSE (v.bk = "heap" /\ v.allocated > pre.allocated) =>
                v.allocated = GrowthPolicy(ByteLength(pre),
                                           v.length - ByteLength(pre), call.ok)

\* every character of the bytes of o takes one byte
OneByteChars(o) == o.bk = "null" \/ Tcl_NumUtfChars(o.bytes) = Len(o.bytes)

\* C23: after Tcl_AppendObjToObj(v, other) on an unshared v that has bytes
\* and no unicode buffer, numChars of v is -1 or the number of characters of
\* its bytes; and when bytes were appended and it is not -1, both counts
\* were known before the call, both values had one byte per character and
\* it is the sum of the two counts
C23_AppendObjCountIsSumOrUnknown ==
  (call.op = "Tcl_AppendObjToObj" /\ call.st = "ok" /\ ~call.psh
     /\ call.pre.hasUnicode = 0 /\ call.pre.bk # "null") =>
     /\ v.numChars = -1 \/ v.numChars = Tcl_NumUtfChars(v.bytes)
     /\ (v.numChars # -1 /\ call.ret.obj.length > 0) =>
          /\ call.pre.numChars >= 0
          /\ call.a.ap.numChars >= 0
          /\ OneByteChars(call.pre)
          /\ OneByteChars(call.ret.obj)
          /\ v.numChars = call.pre.numChars + call.a.ap.numChars

----------------------------------------------------------------------------
(* Tcl_AppendFormatToObj on format strings put together from pieces: each  *)
(* piece is a literal, an escape or one conversion specifier, or a part of *)
(* a specifier. One call is followed on each destination.                  *)

\* the number of calls of Tcl_AppendFormatToObj made on a destination
MaxFormats == 1

\* the number of pieces of a format string of literals and %s specifiers
MaxPieces == 3

\* the next call of Tcl_AppendFormatToObj can be made
ReadyFormat == fatal = "none" /\ call.op = "none" /\ ops < MaxFormats

\* the destinations: the empty value, the bytes "a", the code unit U+0100
InitFormat ==
  /\ \/ \E b \in {<<>>, <<Ch.a>>} : FromBytes(b)
     \/ FromUnicode(<<256>>, TRUE)
  /\ fatal = "none"
  /\ call = Idle
  /\ ops = 0

\* Tcl_AppendFormatToObj(NULL, v, format, objc, objv) for the format string
\* made of the pieces; n and m are what the caller notes of the arguments;
\* the allocation attempts succeed as in Oks and an indeterminate byte is
\* read as one of Gs
FormatPiecesIn(pieces, objv, n, m, Oks, Gs) ==
  \E g \in Gs, ok \in Oks, wideIsLong \in BOOLEAN :
  \E f \in {Flatten(pieces)} :
  \E r \in {Tcl_AppendFormatToObj(v, f, objv, FALSE, ok, g, wideIsLong)} :
     /\ Canon(ok, r, Tcl_AppendFormatToObj(v, f, objv, FALSE, TRUE, g,
                                           wideIsLong))
     /\ Mutated("Tcl_AppendFormatToObj", FALSE,
                [NoArgs EXCEPT !.b = f, !.objv = objv, !.pieces = pieces,
                               !.n = n, !.m = m],
                ok, r, [NoRet EXCEPT !.code = r.ret])

FormatPieces(pieces, objv, n, m) ==
  FormatPiecesIn(pieces, objv, n, m, BOOLEAN, Garbage)

\* the characters the call that has just ended appended to its destination
Appended == Drop(Chars(v), Len(Chars(call.pre)))

\* a sequential specifier, the positional specifiers of the first and of the
\* second value, the escaped marker, a literal
SequentialPiece == <<Ch.percent, Ch.s>>

PositionalPieces ==
  {<<Ch.percent, Ch.zero + k, Ch.dollar, Ch.s>> : k \in 1..2}

EscapePiece == <<Ch.percent, Ch.percent>>

StylePieces ==
  {SequentialPiece, EscapePiece, <<Ch.a>>} \cup PositionalPieces

\* format strings of up to MaxPieces of these pieces, with a value for every
\* specifier
FormatStyles ==
  /\ ReadyFormat
  /\ \E pieces \in SeqsUpTo(StylePieces, MaxPieces) \ {<<>>} :
       FormatPieces(pieces, [k \in 1..MaxPieces |-> FormatArg.a], 0, 0)

\* the format string of the call that has just ended is made of literals,
\* escapes and %s specifiers, and objv has a value for every one of them
OfStyles ==
  /\ call.op = "Tcl_AppendFormatToObj"
  /\ call.a.pieces # <<>>
  /\ \A k \in 1..Len(call.a.pieces) : call.a.pieces[k] \in StylePieces
  /\ Len(call.a.objv) >= Max(2, Len(call.a.pieces))

\* C24: a format string that has both a positional and a sequential
\* specifier, in either order, makes Tcl_AppendFormatToObj return TCL_ERROR;
\* one that has specifiers of one style only, with or without escaped
\* markers, and nothing else wrong with it, returns TCL_OK
C24_MixedStylesAreRejected ==
  (OfStyles /\ call.st = "ok") =>
     (call.ret.code = "TCL_ERROR"
        <=> /\ \E i \in 1..Len(call.a.pieces) :
                 call.a.pieces[i] \in PositionalPieces
            /\ \E j \in 1..Len(call.a.pieces) :
                 call.a.pieces[j] = SequentialPiece)

\* a positional specifier, an escaped marker and then a sequential specifier
\* were rejected
C24_Witness ==
  /\ OfStyles
  /\ call.st = "ok"
  /\ call.a.pieces = <<<<Ch.percent, Ch.zero + 1, Ch.dollar, Ch.s>>,
                       EscapePiece, SequentialPiece>>
  /\ call.ret.code = "TCL_ERROR"

\* a value to format that holds the numeral of n
IntObj(n) == Tcl_NewStringObj(Numeral(n))

\* %d specifiers: sequential, with a width or a precision or both taken from
\* objv, and positional for the positions 0 to 3; and a literal
IndexPieces ==
  {<<Ch.percent, Ch.d>>,
   <<Ch.percent, Ch.star, Ch.d>>,
   <<Ch.percent, Ch.dot, Ch.star, Ch.d>>,
   <<Ch.percent, Ch.star, Ch.dot, Ch.star, Ch.d>>,
   <<Ch.space>>}
    \cup {<<Ch.percent, Ch.zero + k, Ch.dollar, Ch.d>> : k \in 0..3}
    \cup {<<Ch.percent, Ch.zero + 1, Ch.dollar, Ch.star, Ch.d>>}

\* format strings of one or two of these pieces, with 0 to 2 values
FormatIndexed ==
  /\ ReadyFormat
  /\ \E pieces \in SeqsUpTo(IndexPieces, 2) \ {<<>>}, objc \in 0..2 :
       FormatPieces(pieces, [k \in 1..objc |-> IntObj(1)], objc, 0)

\* the number of values a specifier takes from objv for '*'
Stars(piece) == Cardinality({k \in 1..Len(piece) : piece[k] = Ch.star})

\* the position a positional specifier names; -1 for a sequential one
Position(piece) ==
  IF Len(piece) > 2 /\ piece[3] = Ch.dollar THEN piece[2] - Ch.zero ELSE -1

RECURSIVE OutOfRange(_, _, _, _)
\* one of the specifiers from the k-th piece on needs a value at an index
\* outside 0 .. objc - 1, when it takes its values from the index next on
\* if it is sequential and from its position on if it is positional
OutOfRange(pieces, k, next, objc) ==
  IF k > Len(pieces) THEN FALSE
  ELSE IF pieces[k][1] # Ch.percent THEN OutOfRange(pieces, k + 1, next, objc)
  ELSE Bind(IF Position(pieces[k]) = -1 THEN next
            ELSE Position(pieces[k]) - 1, LAMBDA first :
         \/ first < 0
         \/ first + Stars(pieces[k]) >= objc
         \/ OutOfRange(pieces, k + 1, first + Stars(pieces[k]) + 1, objc))

\* the format string of the call that has just ended is made of literals
\* and %d specifiers
OfIndexed ==
  /\ call.op = "Tcl_AppendFormatToObj"
  /\ call.a.pieces # <<>>
  /\ \A k \in 1..Len(call.a.pieces) : call.a.pieces[k] \in IndexPieces

\* C25: when a specifier of the format string, with the values it takes for
\* '*', needs a value at an index outside 0 .. objc - 1,
\* Tcl_AppendFormatToObj returns TCL_ERROR and the destination has the
\* characters it had before the call
C25_IndexOutOfRangeIsRejected ==
  (OfIndexed /\ call.st = "ok"
     /\ OutOfRange(call.a.pieces, 1, 0, Len(call.a.objv))) =>
     /\ call.ret.code = "TCL_ERROR"
     /\ Chars(v) = Chars(call.pre)

\* specifiers the end of the format string cuts off: after the marker, a
\* flag, a width, a precision, a length modifier, a position
TruncatedSpecs ==
  {<<Ch.percent>> \o t :
     t \in {<<>>, <<Ch.minus>>, <<Ch.zero>>, <<Ch.hash>>, <<Ch.zero + 5>>,
            <<Ch.star>>, <<Ch.dot>>, <<Ch.dot, Ch.zero + 2>>, <<Ch.h>>,
            <<Ch.l>>, <<Ch.l, Ch.l>>, <<Ch.zero + 1, Ch.dollar>>,
            <<Ch.minus, Ch.zero + 5, Ch.dot, Ch.zero + 2, Ch.l>>}}

\* specifiers whose conversion character is none of s c d i u o x X b e E f
\* g G: q, z, a, $, U+0100, and q after a flag, a width and a modifier
UnknownSpecs ==
  {<<Ch.percent>> \o t :
     t \in {<<Ch.q>>, <<Ch.z>>, <<Ch.a>>, <<Ch.dollar>>, <<196, 128>>,
            <<Ch.minus, Ch.zero + 5, Ch.l, Ch.q>>}}

\* the conversions that demand a number, under each length modifier; %llu
\* is the unsigned conversion of a bignum
NumericSpecs ==
  {<<Ch.percent>> \o md \o <<c>> :
     md \in {<<>>, <<Ch.h>>, <<Ch.l>>, <<Ch.l, Ch.l>>},
     c \in {Ch.c, Ch.d, Ch.i, Ch.u, Ch.o, Ch.x, Ch.X, Ch.b}}
    \ {<<Ch.percent, Ch.l, Ch.l, Ch.u>>}

UnsignedBigSpec == <<Ch.percent, Ch.l, Ch.l, Ch.u>>

\* a specifier whose width is taken from objv
StarSpec == <<Ch.percent, Ch.star, Ch.d>>

\* values that are not numbers: "a", "", "-", U+0100
NonNumbers ==
  {Tcl_NewStringObj(<<Ch.a>>), Tcl_NewStringObj(<<>>),
   Tcl_NewStringObj(<<Ch.minus>>), Tcl_NewUnicodeObj(<<256>>, 1)}

\* one specifier, after nothing or after a literal, with two values of
\* which the first is a number or is not one
FormatRejected ==
  /\ ReadyFormat
  /\ \E lit \in {<<>>, <<Ch.a>>},
        sp \in TruncatedSpecs \cup UnknownSpecs \cup NumericSpecs
                 \cup {UnsignedBigSpec, StarSpec, SequentialPiece},
        arg \in NonNumbers \cup {IntObj(2)} :
       FormatPieces(<<lit, sp>>, <<arg, IntObj(2)>>, 0, 0)

\* the call that has just ended had a specifier cut off by the end of the
\* format string, or one with an unknown conversion character, or a
\* conversion or a '*' that demands a number of a value that is not one, or
\* the unsigned conversion of a bignum
OfRejected ==
  /\ call.op = "Tcl_AppendFormatToObj"
  /\ Len(call.a.pieces) = 2
  /\ call.a.pieces[1] \in {<<>>, <<Ch.a>>}
  /\ Len(call.a.objv) = 2
  /\ \/ call.a.pieces[2] \in TruncatedSpecs \cup UnknownSpecs
     \/ call.a.pieces[2] = UnsignedBigSpec
     \/ /\ call.a.pieces[2] \in NumericSpecs \cup {StarSpec}
        /\ call.a.objv[1] \in NonNumbers

\* C26: Tcl_AppendFormatToObj returns TCL_ERROR, never TCL_OK, for a
\* specifier cut off by the end of the format string, for a conversion
\* character outside s c d i u o x X b e E f g G, for a value that cannot
\* be coerced to the number the conversion demands, and for %llu
C26_BadSpecifierIsRejected ==
  (OfRejected /\ call.st = "ok") => call.ret.code = "TCL_ERROR"

\* %llu of the number 2 was rejected
C26_Witness ==
  /\ OfRejected
  /\ call.st = "ok"
  /\ call.a.pieces = <<<<>>, UnsignedBigSpec>>
  /\ call.a.objv = <<IntObj(2), IntObj(2)>>
  /\ call.ret.code = "TCL_ERROR"

\* the flags, in the order a specifier of the model has them
FlagChars == <<Ch.minus, Ch.zero, Ch.plus, Ch.space, Ch.hash>>

\* the flags of S, as they stand in a specifier
FlagsOf(S) == SelectSeq(FlagChars, LAMBDA c : c \in S)

\* the integer conversions
IntegerConvs == {Ch.d, Ch.i, Ch.u, Ch.o, Ch.x, Ch.X, Ch.b}

\* the numbers formatted
IntVals == {0, 3, -3}

\* the field widths: none, the digit 4, and 4 and -4 taken from objv
FieldWidths ==
  {[piece |-> <<>>, star |-> FALSE, n |-> 0],
   [piece |-> <<Ch.zero + 4>>, star |-> FALSE, n |-> 4],
   [piece |-> <<Ch.star>>, star |-> TRUE, n |-> 4],
   [piece |-> <<Ch.star>>, star |-> TRUE, n |-> -4]}

\* one specifier % flags width precision modifier conversion, as its pieces
SpecPieces(flags, width, precision, modifier, conv) ==
  <<<<Ch.percent>>, flags, width, precision, modifier, <<conv>>>>

\* one integer conversion of a number under every set of flags, a width, a
\* precision and a length modifier; a negative number is converted unsigned
\* only as a short or as a bignum. The values are new numerals and the
\* segment is a new value, so that no indeterminate byte is read, and the
\* allocation attempts succeed
FormatInteger ==
  /\ ReadyFormat
  /\ \E S \in SUBSET {Ch.minus, Ch.zero, Ch.plus, Ch.space, Ch.hash},
        w \in FieldWidths,
        precision \in {<<>>, <<Ch.dot>>, <<Ch.dot, Ch.zero + 2>>},
        modifier \in {<<>>, <<Ch.h>>, <<Ch.l>>, <<Ch.l, Ch.l>>},
        conv \in IntegerConvs,
        val \in IntVals :
       /\ val < 0 =>
            conv \in {Ch.d, Ch.i} \/ modifier \in {<<Ch.h>>, <<Ch.l, Ch.l>>}
       /\ FormatPiecesIn(SpecPieces(FlagsOf(S), w.piece, precision, modifier,
                                    conv),
                         IF w.star THEN <<IntObj(w.n), IntObj(val)>>
                         ELSE <<IntObj(val)>>,
                         w.n, val, {TRUE}, {0})

\* the call that has just ended formatted the number call.a.m by one integer
\* conversion and returned TCL_OK
OfInteger ==
  /\ call.op = "Tcl_AppendFormatToObj"
  /\ Len(call.a.pieces) = 6
  /\ call.a.pieces[1] = <<Ch.percent>>
  /\ Len(call.a.pieces[6]) = 1
  /\ call.a.pieces[6][1] \in IntegerConvs
  /\ call.st = "ok"
  /\ call.ret.code = "TCL_OK"

\* the specifier of the call that has just ended has the flag c
HasFlag(c) == \E k \in 1..Len(call.a.pieces[2]) : call.a.pieces[2][k] = c

\* the sign glyph the characters out begin with, 0 when they begin with none
SignGlyph(out) ==
  IF out # <<>> /\ out[1] \in {Ch.minus, Ch.plus, Ch.space} THEN out[1] ELSE 0

\* C27: an integer conversion without a field width emits a sign glyph only
\* when it is d or i, and then '-' for a negative number, else '+' under
\* the flag '+', else a space under the flag ' ', else none; u, o, x, X and
\* b emit none under any length modifier
C27_SignOnlyForSignedDecimal ==
  (OfInteger /\ call.a.pieces[3] = <<>>) =>
     SignGlyph(Appended)
       = IF call.a.pieces[6][1] \notin {Ch.d, Ch.i} THEN 0
         ELSE IF call.a.m < 0 THEN Ch.minus
         ELSE IF HasFlag(Ch.plus) THEN Ch.plus
         ELSE IF HasFlag(Ch.space) THEN Ch.space
         ELSE 0

\* the digits an integer conversion has to emit for the number val: those
\* of its magnitude for d, i and for a bignum, those of val as an unsigned
\* short under h, in the base of the conversion, and "0" for 0
DigitsEmitted(val, conv, modifier) ==
  Bind(IF val >= 0 THEN val
       ELSE IF conv \notin {Ch.d, Ch.i} /\ modifier = <<Ch.h>> THEN 65536 + val
       ELSE 0 - val, LAMBDA magnitude :
    IF magnitude = 0 THEN <<Ch.zero>>
    ELSE DigitsOf(magnitude,
                  IF conv \in {Ch.d, Ch.i, Ch.u} THEN 10
                  ELSE IF conv = Ch.o THEN 8
                  ELSE IF conv = Ch.b THEN 2 ELSE 16))

\* the precision of the specifier of the call that has just ended, -1 when
\* it has none
PrecisionGiven ==
  IF call.a.pieces[4] = <<>> THEN -1
  ELSE IF Len(call.a.pieces[4]) = 1 THEN 0
  ELSE call.a.pieces[4][2] - Ch.zero

\* the field of the call that has just ended is left-justified: by the flag
\* '-' or by a negative width taken from objv
LeftJustified == HasFlag(Ch.minus) \/ call.a.n < 0

\* the number of zeros the characters out have before the digits: what is
\* neither a space nor a sign nor one of the digits
ZerosInserted(out, digits) ==
  Cardinality({k \in 1..Len(out) : out[k] \notin {Ch.space, Ch.minus, Ch.plus}})
    - Len(digits)

\* C28: an integer conversion without the flag '#' inserts, before its
\* digits, the zeros that bring the digits to the precision when one is
\* given, and no others when the field is left-justified or a precision is
\* given or the flag '0' is absent; with the flag '0', right-justified and
\* without precision, the field is filled to its width without spaces
C28_ZeroPaddingOnlyRightJustifiedWithoutPrecision ==
  (OfInteger /\ ~HasFlag(Ch.hash)) =>
     \A digits \in {DigitsEmitted(call.a.m, call.a.pieces[6][1],
                                  call.a.pieces[5])} :
        IF PrecisionGiven >= 0
          THEN ZerosInserted(Appended, digits)
                 = Max(0, PrecisionGiven - Len(digits))
        ELSE IF LeftJustified \/ ~HasFlag(Ch.zero)
          THEN ZerosInserted(Appended, digits) = 0
        ELSE /\ Len(Appended) >= Max(call.a.n, 0 - call.a.n)
             /\ \A k \in 2..Len(Appended) : Appended[k] # Ch.space

\* what the specifier of the call that has just ended appends to an empty
\* value for the same number when it has no field width; the numbers
\* formatted are converted alike whether or not long is as wide as
\* Tcl_WideInt
WithoutWidth ==
  Chars(Tcl_AppendFormatToObj(Tcl_NewStringObj(<<>>),
                              Flatten([call.a.pieces EXCEPT ![3] = <<>>]),
                              <<call.a.objv[Len(call.a.objv)]>>,
                              FALSE, TRUE, 0, TRUE).o)

InitFormatInteger ==
  /\ FromBytes(<<>>)
  /\ fatal = "none"
  /\ call = Idle
  /\ ops = 0

NextFormatInteger == FormatInteger \/ Continue

SpecFormatInteger == InitFormatInteger /\ [][NextFormatInteger]_vars

\* the texts formatted by %s: "", "a", "ab", the bytes of U+0100 'a' and the
\* code units U+0100 'a'; no character of them is a space or a '0'
Texts ==
  {Tcl_NewStringObj(b) : b \in {<<>>, <<Ch.a>>, <<Ch.a, Ch.b>>,
                                <<196, 128, Ch.a>>}}
    \cup {Tcl_NewUnicodeObj(<<256, Ch.a>>, 2)}

\* one conversion s of a text, or c of the code of 'a' or of U+0100, under
\* the flags '-' and '0', a width and a precision
FormatText ==
  /\ ReadyFormat
  /\ \E S \in SUBSET {Ch.minus, Ch.zero},
        w \in FieldWidths,
        precision \in {<<>>, <<Ch.dot>>, <<Ch.dot, Ch.zero + 1>>,
                       <<Ch.dot, Ch.zero + 2>>},
        conv \in {Ch.s, Ch.c} :
     \E arg \in IF conv = Ch.s THEN Texts ELSE {IntObj(Ch.a), IntObj(256)} :
       FormatPieces(SpecPieces(FlagsOf(S), w.piece, precision, <<>>, conv),
                    IF w.star THEN <<IntObj(w.n), arg>> ELSE <<arg>>,
                    w.n, 0)

\* the call that has just ended formatted a text by one conversion s or c
\* and returned TCL_OK
OfText ==
  /\ call.op = "Tcl_AppendFormatToObj"
  /\ Len(call.a.pieces) = 6
  /\ call.a.pieces[1] = <<Ch.percent>>
  /\ Len(call.a.pieces[6]) = 1
  /\ call.a.pieces[6][1] \in {Ch.s, Ch.c}
  /\ call.st = "ok"
  /\ call.ret.code = "TCL_OK"

\* what is left of the characters out without spaces and '0's: the segment
\* of a text conversion
Unpadded(out) == SelectSeq(out, LAMBDA c : c \notin {Ch.space, Ch.zero})

\* C29: a segment shorter than the field width is preceded by the padding
\* when the field is not left-justified, of '0's under the flag '0' and of
\* spaces otherwise, and is followed by a padding of spaces when the field
\* is left-justified
C29_PaddingSideAndGlyph ==
  OfText =>
     \A seg \in {Unpadded(Appended)} :
     \A pad \in {Max(0, Max(call.a.n, 0 - call.a.n) - Len(seg))} :
        Appended = IF LeftJustified THEN seg \o Fill(pad, Ch.space)
                   ELSE Fill(pad, IF HasFlag(Ch.zero) THEN Ch.zero
                                  ELSE Ch.space) \o seg

\* the text formatted by the call that has just ended
TextArg == call.a.objv[Len(call.a.objv)]

\* C30: the conversion s emits the first p characters of its argument when
\* the precision p is smaller than the character length of the argument,
\* and the whole argument otherwise or without precision; the reads the
\* conversion makes of the argument leave its characters and its bytes as
\* they were
C30_StringPrecisionCountsCharacters ==
  (OfText /\ call.a.pieces[6] = <<Ch.s>>) =>
     /\ Unpadded(Appended)
          = IF PrecisionGiven >= 0 /\ PrecisionGiven < Len(Chars(TextArg))
              THEN Take(Chars(TextArg), PrecisionGiven)
              ELSE Chars(TextArg)
     /\ \A g \in Garbage :
        \A r \in {IF PrecisionGiven >= 0
                     /\ PrecisionGiven < Len(Chars(TextArg))
                   THEN Tcl_GetRange(Tcl_GetCharLength(TextArg).o, 0,
                                     PrecisionGiven - 1, g)
                   ELSE Tcl_GetCharLength(TextArg)} :
           /\ r.st = "ok"
           /\ Chars(r.o) = Chars(TextArg)
           /\ r.o.bk = TextArg.bk
           /\ TextArg.bk # "null" => r.o.bytes = TextArg.bytes

\* "%.1s" of the bytes C4 80 61 has emitted U+0100, the first character
C30_Witness ==
  /\ OfText
  /\ call.a.pieces[6] = <<Ch.s>>
  /\ PrecisionGiven = 1
  /\ TextArg.bytes = <<196, 128, Ch.a>>
  /\ Appended = <<256>>

\* %s specifiers: sequential, without and with a width taken from objv, and
\* positional for the positions 1 to 3, and for the position 1 with a width
\* taken from objv; and a literal
OrderPieces ==
  {SequentialPiece, <<Ch.percent, Ch.star, Ch.s>>, <<Ch.minus>>,
   <<Ch.percent, Ch.zero + 1, Ch.dollar, Ch.star, Ch.s>>}
    \cup {<<Ch.percent, Ch.zero + k, Ch.dollar, Ch.s>> : k \in 1..3}

\* format strings of up to MaxPieces of these pieces, with the values "1",
\* "2" and "3"
FormatOrder ==
  /\ ReadyFormat
  /\ \E pieces \in SeqsUpTo(OrderPieces, MaxPieces) \ {<<>>} :
       FormatPieces(pieces, [k \in 1..3 |-> IntObj(k)], 3, 0)

\* the format string of the call that has just ended is made of literals
\* and %s specifiers, objv is "1", "2", "3", and the call returned TCL_OK
OfOrder ==
  /\ call.op = "Tcl_AppendFormatToObj"
  /\ call.a.pieces # <<>>
  /\ \A k \in 1..Len(call.a.pieces) : call.a.pieces[k] \in OrderPieces
  /\ call.a.n = 3
  /\ call.st = "ok"
  /\ call.ret.code = "TCL_OK"

\* the characters of the value at the index i of objv, padded on the left
\* to the width the value at the index w holds when w is an index
Field(objv, w, i) ==
  Fill(IF w < 0 THEN 0
       ELSE Max(0, (objv[w + 1].bytes[1] - Ch.zero) - Len(Chars(objv[i + 1]))),
       Ch.space) \o Chars(objv[i + 1])

RECURSIVE InOrder(_, _, _, _, _)
\* what the pieces from the k-th on emit when a sequential specifier takes
\* its values from the index next on, first the width for '*' and then the
\* value to format, and a positional specifier formats the value at its
\* position less one, or, when after is set, takes its values from its
\* position less one on like a sequential one
InOrder(pieces, k, next, objv, after) ==
  IF k > Len(pieces) THEN <<>>
  ELSE IF pieces[k][1] # Ch.percent
    THEN pieces[k] \o InOrder(pieces, k + 1, next, objv, after)
  ELSE IF Position(pieces[k]) = -1
    THEN Field(objv, IF Stars(pieces[k]) = 1 THEN next ELSE -1,
               next + Stars(pieces[k]))
           \o InOrder(pieces, k + 1, next + Stars(pieces[k]) + 1, objv, after)
  ELSE Bind(Position(pieces[k]) - 1, LAMBDA first :
         Field(objv, IF Stars(pieces[k]) = 1 THEN first ELSE -1,
               IF after THEN first + Stars(pieces[k]) ELSE first)
           \o InOrder(pieces, k + 1, next, objv, after))

\* C31 as stated: every positional specifier %n$ formats the value at the
\* index n - 1 of objv, and the k-th sequential specifier the next value
\* not yet taken, after the value its '*' takes
C31_PositionalFormatsItsPosition ==
  OfOrder => Appended = InOrder(call.a.pieces, 1, 0, call.a.objv, FALSE)

\* C31 as amended: a positional specifier %n$ takes its values from the
\* index n - 1 of objv on, first the value of its '*' and then the value it
\* formats; the k-th sequential specifier takes them from the next value
\* not yet taken on
C31_SpecifierTakesValuesFromItsIndexOn ==
  OfOrder => Appended = InOrder(call.a.pieces, 1, 0, call.a.objv, TRUE)

\* "%2$s-%1$s" of "1", "2", "3" has emitted "2-1"
C31_Witness ==
  /\ OfOrder
  /\ call.a.pieces = <<<<Ch.percent, Ch.zero + 2, Ch.dollar, Ch.s>>,
                       <<Ch.minus>>,
                       <<Ch.percent, Ch.zero + 1, Ch.dollar, Ch.s>>>>
  /\ Appended = <<Ch.zero + 2, Ch.minus, Ch.zero + 1>>

----------------------------------------------------------------------------
(* Tcl_AppendPrintfToObj and Tcl_ObjPrintf on format strings put together   *)
(* from items: a piece of the format with the native arguments the caller   *)
(* passes for it.                                                           *)

Item(text, args) == [text |-> text, args |-> args]

\* a literal and the escaped marker
PlainItems == {Item(<<Ch.a>>, <<>>), Item(EscapePiece, <<>>)}

\* specifiers the format engine converts: strings, whole and cut by a
\* precision; numbers as int and as long under the conversions and length
\* modifiers; a width taken from the arguments
AcceptedItems ==
  {Item(<<Ch.percent, Ch.s>>, <<StrArg(b)>>) :
     b \in {<<>>, <<Ch.a>>, <<196, 128>>}}
    \cup {Item(<<Ch.percent, Ch.dot, Ch.zero + 1, Ch.s>>,
               <<StrArg(<<Ch.a, Ch.b>>)>>),
          Item(<<Ch.percent, Ch.dot, Ch.star, Ch.s>>,
               <<IntArg(1), StrArg(<<Ch.a, Ch.b>>)>>),
          Item(<<Ch.percent, Ch.star, Ch.d>>, <<IntArg(2), IntArg(3)>>),
          Item(<<Ch.percent, Ch.c>>, <<IntArg(Ch.a)>>),
          Item(<<Ch.percent, Ch.h, Ch.d>>, <<IntArg(3)>>),
          Item(<<Ch.percent, Ch.l, Ch.d>>, <<LongArg(-3)>>),
          Item(<<Ch.percent, Ch.l, Ch.l, Ch.d>>, <<LongArg(3)>>),
          Item(<<Ch.percent, Ch.b>>, <<IntArg(3)>>)}
    \cup {Item(<<Ch.percent, c>>, <<IntArg(3)>>) :
            c \in {Ch.d, Ch.i, Ch.u, Ch.o, Ch.x, Ch.X}}

\* specifiers the format engine rejects: an unknown conversion, the end of
\* the format in the specifier, the unsigned conversion of a bignum, a
\* position after a sequential specifier
RejectedItems ==
  {Item(<<Ch.percent, Ch.q>>, <<>>),
   Item(<<Ch.percent>>, <<>>),
   Item(<<Ch.percent, Ch.l, Ch.l, Ch.u>>, <<LongArg(3)>>),
   Item(<<Ch.percent, Ch.zero + 1, Ch.dollar, Ch.s>>, <<StrArg(<<Ch.a>>)>>)}

PrintfItems == PlainItems \cup AcceptedItems \cup RejectedItems

\* the number of items of a format string
MaxItems == 2

\* the pieces of the items, and the arguments passed for them
TextsOf(items) == [k \in 1..Len(items) |-> items[k].text]

ArgsOf(items) == Flatten([k \in 1..Len(items) |-> items[k].args])

\* the call r of the front-end for the items has ended; where the scan
\* read through an indeterminate pointer the process may have ended at it
Printed(op, items, sh, ok, r) ==
  \E crash \in BOOLEAN :
     /\ crash => r.ret.wild
     /\ Mutated(op, sh,
                [NoArgs EXCEPT !.b = Flatten(TextsOf(items)),
                               !.pieces = TextsOf(items),
                               !.argList = ArgsOf(items),
                               !.objv = r.ret.list],
                ok,
                Res(r.o, IF crash /\ r.st = "ok" THEN "crash" ELSE r.st, 0),
                [NoRet EXCEPT !.code = r.ret.code, !.ub = r.ret.ub])

\* Tcl_AppendPrintfToObj(v, format, ...)
AppendPrintf ==
  /\ ReadyFormat
  /\ \E items \in SeqsUpTo(PrintfItems, MaxItems) \ {<<>>},
        g \in Garbage, ok \in BOOLEAN, wideIsLong \in BOOLEAN :
     \E r \in {Tcl_AppendPrintfToObj(v, Flatten(TextsOf(items)),
                                     ArgsOf(items), FALSE, ok, g,
                                     wideIsLong)} :
        /\ Canon(ok, r, Tcl_AppendPrintfToObj(v, Flatten(TextsOf(items)),
                                              ArgsOf(items), FALSE, TRUE, g,
                                              wideIsLong))
        /\ Printed("Tcl_AppendPrintfToObj", items, FALSE, ok, r)

\* Tcl_ObjPrintf(format, ...): the value it returns takes the place of v
ObjPrintf ==
  /\ ReadyFormat
  /\ \E items \in SeqsUpTo(PrintfItems, MaxItems) \ {<<>>},
        g \in Garbage, ok \in BOOLEAN, wideIsLong \in BOOLEAN :
     \E r \in {Tcl_ObjPrintf(Flatten(TextsOf(items)), ArgsOf(items), ok, g,
                             wideIsLong)} :
        /\ Canon(ok, r, Tcl_ObjPrintf(Flatten(TextsOf(items)), ArgsOf(items),
                                      TRUE, g, wideIsLong))
        /\ Printed("Tcl_ObjPrintf", items, FALSE, ok, r)

\* the call of the front-end that has just ended
OfPrintf == call.op \in {"Tcl_AppendPrintfToObj", "Tcl_ObjPrintf"}

\* the bytes the destination of the call that has just ended had before
\* it: those of v, none for Tcl_ObjPrintf
BytesBefore ==
  IF call.op = "Tcl_ObjPrintf" THEN <<>>
  ELSE IF call.pre.bk # "null" THEN call.pre.bytes
  ELSE Encode(call.pre.unicode)

\* the value o holds the bytes before, then the diagnostic for the format f
\* and the list: as its code units when it has a unicode buffer, as its
\* bytes otherwise. The literal parts of the diagnostic are one-byte
\* characters
HasDiagnostic(o, before, f, list) ==
  IF o.hasUnicode # 0
    THEN o.unicode = Decode(before) \o SubSeq(UnableToFormat, 1, 18)
                       \o Decode(f) \o SubSeq(UnableToFormat, 21, 47)
                       \o Decode(ListString(list))
    ELSE o.bytes = before \o SubSeq(UnableToFormat, 1, 18) \o f
                     \o SubSeq(UnableToFormat, 21, 47) \o ListString(list)

\* C32: when Tcl_AppendFormatToObj returns TCL_ERROR inside
\* Tcl_AppendPrintfToObj or Tcl_ObjPrintf, the call returns, and the
\* destination has what it had before the call followed by the
\* diagnostic, and nothing of what the failed formatting had appended
C32_FailureAppendsDiagnostic ==
  (OfPrintf /\ ~call.ret.ub /\ call.ret.code = "TCL_ERROR") =>
     /\ call.st = "ok"
     /\ HasDiagnostic(v, BytesBefore, call.a.b, call.a.objv)

\* the value a native argument is to be formatted as
ObjOf(arg) ==
  IF arg.kind = "str" THEN Tcl_NewStringObj(arg.b) ELSE Tcl_NewLongObj(arg.n)

\* the format of the call of the front-end that has just ended is made of
\* literals, escaped markers and specifiers that each came with the native
\* arguments it consumes, and Tcl_AppendFormatToObj returns TCL_OK for it
\* when it is given the values of the native arguments
EngineAccepts ==
  /\ OfPrintf
  /\ \A k \in 1..Len(call.a.pieces) :
        \E item \in PlainItems \cup AcceptedItems :
           call.a.pieces[k] = item.text
  /\ Tcl_AppendFormatToObj(Tcl_NewStringObj(<<>>), call.a.b,
                        [k \in 1..Len(call.a.argList) |->
                           ObjOf(call.a.argList[k])],
                        FALSE, TRUE, 0, TRUE).ret = "TCL_OK"

\* the bytes part are bytes of whole, one after the other
PartOf(part, whole) ==
  \E i \in 0..Len(whole) : part = SubSeq(whole, i + 1, i + Len(part))

\* the list holds one value for each of the native arguments args, in
\* their order: the numeral of a number, bytes of a string
MarshalledAs(list, args) ==
  /\ Len(list) = Len(args)
  /\ \A k \in 1..Len(args) :
        IF args[k].kind = "str" THEN PartOf(list[k].bytes, args[k].b)
        ELSE list[k].bytes = Numeral(args[k].n)

\* C34: for a format that Tcl_AppendFormatToObj accepts with the values of
\* the native arguments, one for every conversion and every '*' and none
\* for an escaped marker, the scan of AppendPrintfToObjVA reads every
\* native argument as the type it was passed as and makes the list of
\* their values, in their order
C34_ScanMarshalsWhatEngineConsumes ==
  EngineAccepts =>
     /\ ~call.ret.ub
     /\ MarshalledAs(call.a.objv, call.a.argList)

NextPrintf == AppendPrintf \/ ObjPrintf \/ Continue

SpecPrintf == InitFormat /\ [][NextPrintf]_vars

----------------------------------------------------------------------------
(* The loop of Tcl_AppendFormatToObj and the scan of AppendPrintfToObjVA,   *)
(* one iteration at a time. While a call runs, call.st is "running" and     *)
(* call.a.loop holds what stays as it is during the call (e) and the        *)
(* locals of the loop (t); v is the destination as the loop has left it.    *)

\* the loop goes on with the locals t; the function has ended as r
Going(t) == [done |-> FALSE, t |-> t, r |-> Res(t.o, "ok", "TCL_OK")]

Ended(t, r) == [done |-> TRUE, t |-> [t EXCEPT !.o = r.o], r |-> r]

\* a literal that counts the character and does not step over it
LiteralWithoutStep(t, step) ==
  [t EXCEPT !.numBytes = t.numBytes + step]

\* a character that is not '%': format += step; numBytes += step
Literal(t, step) ==
  [t EXCEPT !.p = t.p + step, !.numBytes = t.numBytes + step]

\* the reads of objv the specifier s has made are added to those of the call
Noted(t, s) == [t EXCEPT !.reads = t.reads \o s.reads]

\* one iteration of the loop over the format at the offset t.p, or the
\* code after the loop when the format ends there
FormatStep(e, t) ==
  IF ByteAt(e.f, t.p) = 0 THEN Ended(t, FormatOk(FlushSpan(e, t)))
  ELSE
    Bind(Tcl_UtfToUniChar(e.f, t.p), LAMBDA r :
      IF r[1] # Ch.percent THEN Going(Literal(t, r[2]))
      ELSE
        Bind(FlushSpan(e, t), LAMBDA a :
        Bind(t.p + r[2], LAMBDA p :
          IF a.st # "ok" THEN Ended(t, FormatOk(a))
          ELSE IF ByteAt(e.f, p) = Ch.percent
            THEN Going([t EXCEPT !.o = a.o, !.span = p, !.numBytes = 1,
                                 !.p = p + 1])
          ELSE
            Bind(Specifier(e.f,
                           NewSpecifier(t.objv, t.objIndex, t.gotXpg,
                                        t.gotSequential),
                           p, e.g, e.wideIsLong), LAMBDA s :
              IF s.err THEN Ended(Noted(t, s), FormatError(e, a.o))
              ELSE
                Bind(Segment(ReadAt(s), e.g), LAMBDA cv :
                  IF cv.s.err THEN Ended(Noted(t, cv.s), FormatError(e, a.o))
                  ELSE
                    Bind(PadAndAppend(e, a.o, cv.s, cv.seg), LAMBDA w :
                      IF w.st # "ok" THEN Ended(Noted(t, cv.s), FormatOk(w))
                      ELSE
                        Going([o |-> w.o,
                               objv |-> IF cv.alloc THEN cv.s.objv
                                        ELSE Passed(cv.s, w.ret).objv,
                               reads |-> t.reads \o cv.s.reads,
                               p |-> s.p + s.step,
                               span |-> s.p + s.step,
                               numBytes |-> 0,
                               objIndex |-> cv.s.objIndex
                                  + (IF s.gotSequential THEN 1 ELSE 0),
                               gotXpg |-> s.gotXpg,
                               gotSequential |-> s.gotSequential])))))))

\* one iteration of the while loop of the scan at the offset t.p
ScanStep(f, t, g) ==
  IF ByteAt(f, t.p) # Ch.percent THEN [t EXCEPT !.p = t.p + 1]
  ELSE IF ByteAt(f, t.p + 1) = Ch.percent THEN [t EXCEPT !.p = t.p + 2]
  ELSE SeekConversion(f, t, [p |-> t.p + 1, size |-> 0,
                             gotPrecision |-> FALSE, lastNum |-> -1], g)

\* the pieces of the formats followed step by step: specifiers of strings
\* and of numbers, sequential and of the positions 2 and 0, with a width, a
\* width and a precision taken from the arguments and flags; the escaped
\* marker; literals of one and of two bytes; a specifier with an unknown
\* conversion
LoopPieces ==
  {SequentialPiece, EscapePiece, <<Ch.a>>, <<196, 128>>,
   <<Ch.percent, Ch.zero + 2, Ch.dollar, Ch.s>>,
   <<Ch.percent, Ch.zero, Ch.dollar, Ch.s>>,
   <<Ch.percent, Ch.star, Ch.d>>,
   <<Ch.percent, Ch.dot, Ch.star, Ch.s>>,
   <<Ch.percent, Ch.minus, Ch.zero, Ch.plus, Ch.zero + 4, Ch.d>>,
   <<Ch.percent, Ch.q>>}

\* the argument vectors of the calls followed step by step: objc is 0, 1, 2
LoopArguments == {<<>>, <<IntObj(2)>>, <<IntObj(2), IntObj(3)>>}

\* the call of Tcl_AppendFormatToObj(NULL, v, format, objc, objv) is entered:
\* the bytes of v are generated and their length is noted
BeginFormat ==
  /\ ReadyFormat
  /\ \E pieces \in SeqsUpTo(LoopPieces, MaxPieces) \ {<<>>},
        objv \in LoopArguments, wideIsLong \in {TRUE} :
     \E r \in {TclGetString(v, 0)} :
        /\ r.st = "ok"
        /\ v' = r.o
        /\ ops' = ops + 1
        /\ call' = [Call("Tcl_AppendFormatToObj", FALSE,
                         [NoArgs EXCEPT
                            !.b = Flatten(pieces), !.pieces = pieces,
                            !.objv = objv,
                            !.loop =
                              [e |-> [f |-> Flatten(pieces),
                                      originalLength |-> r.o.length,
                                      ok |-> TRUE, g |-> 0,
                                      wideIsLong |-> wideIsLong],
                               t |-> [o |-> r.o,
                                      objv |-> objv, reads |-> <<>>,
                                      p |-> 0, span |-> 0, numBytes |-> 0,
                                      objIndex |-> 0, gotXpg |-> FALSE,
                                      gotSequential |-> FALSE]]],
                         TRUE, r, NoRet)
                    EXCEPT !.st = "running"]
        /\ origin' = NoOrigin
        /\ UNCHANGED fatal

\* the call runs
Running(op) == fatal = "none" /\ call.op = op /\ call.st = "running"

\* the next iteration of the loop of the running call; a span of the
\* format is never longer than the format
StepFormat ==
  /\ Running("Tcl_AppendFormatToObj")
  /\ call.a.loop.t.numBytes <= Len(call.a.b)
  /\ \E n \in {FormatStep(call.a.loop.e, call.a.loop.t)} :
        /\ v' = n.r.o
        /\ fatal' = IF n.r.st = "ok" THEN "none" ELSE n.r.st
        /\ call' = [call EXCEPT
                      !.a.loop.t = n.t,
                      !.st = IF n.done THEN n.r.st ELSE "running",
                      !.ret.code = n.r.ret,
                      !.post = n.r.o]
        /\ UNCHANGED <<ops, origin>>

\* the scan of AppendPrintfToObjVA(v, format, argList) is entered
BeginScan ==
  /\ ReadyFormat
  /\ \E items \in SeqsUpTo(PrintfItems, MaxItems) \ {<<>>} :
        /\ call' = [Call("AppendPrintfToObjVA", FALSE,
                         [NoArgs EXCEPT
                            !.b = Flatten(TextsOf(items)),
                            !.pieces = TextsOf(items),
                            !.argList = ArgsOf(items),
                            !.loop = [p |-> 0, args |-> ArgsOf(items),
                                      list |-> <<>>, ub |-> FALSE,
                                      wild |-> FALSE, arg |-> IntArg(0)]],
                         TRUE, Res(v, "ok", 0), NoRet)
                    EXCEPT !.st = "running"]
        /\ ops' = ops + 1
        /\ origin' = NoOrigin
        /\ UNCHANGED <<v, fatal>>

\* the next iteration of the while loop of the running scan, or its end:
\* the list is complete; the read through a pointer that was not passed
\* may end the program
StepScan ==
  /\ Running("AppendPrintfToObjVA")
  /\ IF ByteAt(call.a.b, call.a.loop.p) = 0
       THEN /\ call' = [call EXCEPT !.st = "ok",
                                    !.a.objv = call.a.loop.list,
                                    !.ret.ub = call.a.loop.ub]
            /\ UNCHANGED fatal
       ELSE \E n \in {ScanStep(call.a.b, call.a.loop, 0)}, crash \in BOOLEAN :
               /\ crash => (n.wild /\ ~call.a.loop.wild)
               /\ call' = [call EXCEPT
                             !.a.loop = n,
                             !.st = IF crash THEN "crash" ELSE "running"]
               /\ fatal' = IF crash THEN "crash" ELSE "none"
  /\ UNCHANGED <<v, ops, origin>>

\* a call that runs step by step
Stepped == call.op \in {"Tcl_AppendFormatToObj", "AppendPrintfToObjVA"}

\* the offset in the format the running call stands at
Offset ==
  IF call.op = "Tcl_AppendFormatToObj" THEN call.a.loop.t.p
  ELSE call.a.loop.p

C35_StepsAgree ==
  (call.op = "Tcl_AppendFormatToObj" /\ call.st # "running") =>
     \A r \in {Tcl_AppendFormatToObj(call.pre, call.a.b, call.a.objv, FALSE,
                                     TRUE, 0, call.a.loop.e.wideIsLong)} :
        /\ r.o = v
        /\ r.ret = call.ret.code
        /\ r.st = call.st

\* C36: every index at which a call of Tcl_AppendFormatToObj has read objv,
\* for the width '*', the precision '*' or the value of a conversion, is
\* one of 0 .. objc-1, in sequential and in positional formats, for objc
\* from 0 on
C36_ReadsWithinArgumentVector ==
  call.op = "Tcl_AppendFormatToObj" =>
     \A k \in 1..Len(call.a.loop.t.reads) :
        /\ call.a.loop.t.reads[k] >= 0
        /\ call.a.loop.t.reads[k] < Len(call.a.objv)

\* a call given two values has read the first for %s and has ended with
\* TCL_ERROR at the '*' of %*d without a further read, one value only
\* being left
C36_Witness ==
  /\ call.op = "Tcl_AppendFormatToObj"
  /\ call.st = "ok"
  /\ call.a.pieces = <<SequentialPiece, <<Ch.percent, Ch.star, Ch.d>>>>
  /\ Len(call.a.objv) = 2
  /\ call.a.loop.t.reads = <<0>>
  /\ call.ret.code = "TCL_ERROR"

\* C38: the code unit Tcl_GetUniChar(v, i) returns, read from the bytes when
\* the value stores no unicode buffer, is the code unit at i of the buffer
\* Tcl_GetUnicodeFromObj makes of the same value, bytes 0x80..0xBF counted
\* as characters of one byte included
C38_ReadPathsAgree ==
  (call.op = "Tcl_GetUniChar" /\ call.st = "ok") =>
     \A u \in {Tcl_GetUnicodeFromObj(call.pre)} :
        /\ u.st = "ok"
        /\ call.a.n < Len(u.ret[1])
        /\ call.ret.n = u.ret[1][call.a.n + 1]

\* the call that has just ended is one of the operations that only read
ReadOnly ==
  call.op \in {"Tcl_GetCharLength", "Tcl_GetUniChar", "Tcl_GetUnicodeFromObj",
               "Tcl_GetRange", "Tcl_GetString"}

\* C39: an operation that only reads ends normally and leaves the character
\* sequence of the value as it was: the bytes that were there before the
\* call and the unicode buffer that was there before the call are unchanged,
\* whatever the call has filled in besides; and Tcl_GetRange(v, first, last)
\* returns a value of last-first+1 characters, the characters first..last
\* of v
C39_ReadsKeepCharacters ==
  ReadOnly =>
     /\ call.st = "ok"
     /\ Chars(v) = Chars(call.pre)
     /\ call.pre.bk # "null" =>
          (v.bk = call.pre.bk /\ v.bytes = call.pre.bytes
             /\ v.length = call.pre.length)
     /\ call.pre.hasUnicode # 0 =>
          (v.hasUnicode # 0 /\ v.unicode = call.pre.unicode)
     /\ call.op = "Tcl_GetRange" =>
          /\ Len(Chars(call.ret.obj)) = call.a.m - call.a.n + 1
          /\ Chars(call.ret.obj)
               = SubSeq(Chars(call.pre), call.a.n + 1, call.a.m + 1)

NextLoop == BeginFormat \/ StepFormat \/ BeginScan \/ StepScan

SpecLoop ==
  /\ InitFormat
  /\ [][NextLoop]_vars
  /\ WF_vars(StepFormat)
  /\ WF_vars(StepScan)

----------------------------------------------------------------------------
(* A value appended to itself.                                              *)

\* Tcl_AppendObjToObj(v, v)
AppendSelf ==
  /\ Ready
  /\ \E g \in Garbage, ok \in BOOLEAN, sh \in BOOLEAN, moved \in BOOLEAN,
        kept \in BOOLEAN :
     \E r \in {IF 2 * Size(v) <= MaxVal
                 THEN Tcl_AppendObjToSelf(v, sh, ok, moved, kept, g)
                 ELSE Skip} :
           /\ r.st # "skip"
           /\ Canon(ok, r, Tcl_AppendObjToSelf(v, sh, TRUE, moved, kept, g))
           /\ Mutated("Tcl_AppendObjToObj", sh, [NoArgs EXCEPT !.ap = v],
                      ok, r, [NoRet EXCEPT !.same = TRUE, !.ub = r.ret])

\* the call that has just ended has appended the value to itself
OfSelf ==
  /\ call.op = "Tcl_AppendObjToObj"
  /\ call.ret.same
  /\ call.st = "ok"

\* C37: after Tcl_AppendObjToObj(v, v) the value is its character sequence
\* of before the call twice, and the copy has not read a block that the
\* growth step of the call has released or moved
C37_SelfAppendCopiesLiveBuffer ==
  OfSelf =>
     /\ Chars(v) = Chars(call.pre) \o Chars(call.pre)
     /\ ~call.ret.ub

NextSelf == AppendSelf \/ AppendBytes \/ AppendUnicode \/ Continue

\* a value constructed from a short sequence, appended to and appended to
\* itself
SpecSelf == Init /\ [][NextSelf]_vars

\* the escaped marker, a sequential specifier, a literal of one byte and a
\* literal of one character of two bytes
EscapedPieces == {EscapePiece, SequentialPiece, <<Ch.minus>>, <<196, 128>>}

\* format strings of up to MaxPieces of these pieces, with the values "1",
\* "2", ..., one for every piece there can be
FormatEscapes ==
  /\ ReadyFormat
  /\ \E pieces \in SeqsUpTo(EscapedPieces, MaxPieces) \ {<<>>} :
       FormatPieces(pieces, [k \in 1..MaxPieces |-> IntObj(k)], MaxPieces, 0)

\* the format string of the call that has just ended is made of escaped
\* markers, literals and %s specifiers, and objv is "1", "2", ...
OfEscapes ==
  /\ call.op = "Tcl_AppendFormatToObj"
  /\ call.a.pieces # <<>>
  /\ \A k \in 1..Len(call.a.pieces) : call.a.pieces[k] \in EscapedPieces
  /\ call.a.n = MaxPieces
  /\ Len(call.a.objv) = MaxPieces
  /\ call.st = "ok"

RECURSIVE Escaped(_, _, _, _)
\* what the pieces from the k-th on are to emit when the next value not yet
\* taken is at the index next: one '%' for an escaped marker, which takes no
\* value, the characters of the next value for %s, and its own characters
\* for a literal
Escaped(pieces, k, next, objv) ==
  IF k > Len(pieces) THEN <<>>
  ELSE IF pieces[k] = EscapePiece
    THEN <<Ch.percent>> \o Escaped(pieces, k + 1, next, objv)
  ELSE IF pieces[k] = SequentialPiece
    THEN Chars(objv[next + 1]) \o Escaped(pieces, k + 1, next + 1, objv)
  ELSE Decode(pieces[k]) \o Escaped(pieces, k + 1, next, objv)

\* C40: Tcl_AppendFormatToObj emits one '%' for every escaped marker "%%",
\* which takes no value and leaves the index of the next value as it is, and
\* emits the literal text between the specifiers as it stands and in its
\* place
C40_EscapeEmitsMarkerLiteralsAreCopied ==
  OfEscapes =>
     /\ call.ret.code = "TCL_OK"
     /\ Appended = Escaped(call.a.pieces, 1, 0, call.a.objv)

\* "%s%%%s" of "1", "2", "3" has emitted "1%2"
C40_Witness ==
  /\ OfEscapes
  /\ call.a.pieces = <<SequentialPiece, EscapePiece, SequentialPiece>>
  /\ Appended = <<Ch.zero + 1, Ch.percent, Ch.zero + 2>>

NextFormat ==
  FormatStyles \/ FormatIndexed \/ FormatRejected \/ FormatText
    \/ FormatOrder \/ FormatEscapes \/ Continue

SpecFormat == InitFormat /\ [][NextFormat]_vars

====
